---- MODULE Spec2Model ----
(***************************************************************************)
(* Inventory consistency engine of Viona: the server actions of            *)
(* app/inventory/actions.ts run as concurrent request handlers against one *)
(* PostgreSQL store through Prisma.  A handler's interactive transaction   *)
(* (prisma.$transaction(async (tx) => ...)) runs at the store's default    *)
(* isolation level, READ COMMITTED: every statement reads the committed    *)
(* rows plus the transaction's own writes, an UPDATE of a row waits for    *)
(* the transaction that holds the row's lock, and all writes become        *)
(* visible together at commit.                                             *)
(***************************************************************************)
EXTENDS Integers, Sequences, FiniteSets, TLC

VARIABLES
    db,        \* committed rows: products, warehouses, stock, movements, prices
    seq,       \* the BIGSERIAL sequences (never rolled back)
    now,       \* the store/server clock (new Date())
    pc,        \* per handler: the statement it is about to run
    req,       \* per handler: the server action called and its arguments
    loc,       \* per handler: the local constants of the running action
    writes,    \* per handler: the uncommitted writes of its transaction
    result,    \* per handler: outcome of its last finished action
    opsLeft,   \* calls the environment may still issue
    cache,     \* the cache store: product-list entries, last-modified markers
    caller     \* per handler: the principal of the session that calls it

vars == <<db, seq, now, pc, req, loc, writes, result, opsLeft, cache, caller>>

------------------------------------------------------------------------------
(* Bounds of the model *)

NumProcs == 2          \* concurrent request handlers
MaxOps == 3            \* server-action calls per behaviour
MaxArg == 1            \* integer arguments range over -MaxArg..MaxArg
MaxTime == 1           \* clock ticks per behaviour
MaxItems == 2          \* items of one bulkUpdateProducts call

Procs == 1..NumProcs
Args == (-MaxArg)..MaxArg
Prices == 0..1

------------------------------------------------------------------------------
(* Rows *)

NULL == 0
NoRow == [id |-> NULL]
NoLoc == [unset |-> TRUE]
NoReq == [op |-> "none"]

Abs(x) == IF x < 0 THEN -x ELSE x
Max(a, b) == IF a >= b THEN a ELSE b

ProductRow(id, org, sku) == [id |-> id, org |-> org, sku |-> sku, status |-> "active"]
DefaultName == 1
WarehouseRow(id, org, created_at) ==
    [id |-> id, org |-> org, created_at |-> created_at, name |-> DefaultName]
StockRow(id, p, w, q) == [id |-> id, product |-> p, warehouse |-> w, quantity |-> q]
MovementRow(p, w, type, q) == [product |-> p, warehouse |-> w, type |-> type, quantity |-> q]
PriceRow(id, p, retail, from) ==
    [id |-> id, product |-> p, retail_price |-> retail, valid_from |-> from, valid_to |-> NULL]
MemberRow(id, org, user, role) == [id |-> id, org |-> org, user |-> user, role |-> role]
InviteRow(token, org, email, role, expires_at) ==
    [id |-> token, token |-> token, org |-> org, email |-> email, role |-> role, status |-> "pending",
     expires_at |-> expires_at]

------------------------------------------------------------------------------
(* The transaction coordinator: uncommitted writes, read-your-own-writes,    *)
(* row locks, commit and rollback.                                           *)

ApplyWrite(d, w) ==
    CASE w.k = "product_ins" -> [d EXCEPT !.products = @ \cup {w.row}]
      [] w.k = "product_upd" ->
            [d EXCEPT !.products = {IF r.id = w.id THEN [r EXCEPT !.status = w.status, !.sku = w.sku]
                                                   ELSE r : r \in @}]
      [] w.k = "warehouse_ins" -> [d EXCEPT !.warehouses = @ \cup {w.row}]
      [] w.k = "stock_ins" -> [d EXCEPT !.stock = @ \cup {w.row}]
      [] w.k = "stock_upd" ->
            [d EXCEPT !.stock = {IF r.id = w.id THEN [r EXCEPT !.quantity = w.quantity] ELSE r : r \in @}]
      [] w.k = "movement_ins" -> [d EXCEPT !.movements = Append(@, w.row)]
      [] w.k = "price_ins" -> [d EXCEPT !.prices = @ \cup {w.row}]
      [] w.k = "price_close" ->
            [d EXCEPT !.prices = {IF r.id \in w.ids THEN [r EXCEPT !.valid_to = w.valid_to] ELSE r : r \in @}]
      [] w.k = "price_upd" ->
            [d EXCEPT !.prices = {IF r.id = w.id THEN [r EXCEPT !.retail_price = w.retail_price] ELSE r : r \in @}]
      [] w.k = "member_ins" -> [d EXCEPT !.members = @ \cup {w.row}]
      [] w.k = "del" -> [d EXCEPT ![w.table] = {r \in @ : r.id \notin w.ids}]
      [] w.k = "movements_del" ->
            [d EXCEPT !.movements = SelectSeq(@, LAMBDA m : m[w.field] \notin w.ids)]
      [] w.k = "org_del" ->
            [d EXCEPT !.orgs = @ \ {w.id},
                      !.warehouses = {IF r.org = w.id THEN [r EXCEPT !.org = NULL] ELSE r : r \in @},
                      !.products = {IF r.org = w.id THEN [r EXCEPT !.org = NULL] ELSE r : r \in @},
                      !.orders = {IF r.org = w.id THEN [r EXCEPT !.org = NULL] ELSE r : r \in @}]
      [] w.k = "invite_upd" ->
            [d EXCEPT !.invites = {IF r.token = w.token THEN [r EXCEPT !.status = w.status] ELSE r : r \in @}]

RECURSIVE ApplyAll(_, _)
ApplyAll(d, ws) == IF ws = <<>> THEN d ELSE ApplyAll(ApplyWrite(d, Head(ws)), Tail(ws))

\* What a statement of handler p's transaction reads.
View(p) == ApplyAll(db, writes[p])

\* The row locks handler q's open transaction holds.
Locks(q) ==
    {<<"product", writes[q][i].id>> : i \in {j \in DOMAIN writes[q] : writes[q][j].k = "product_upd"}}
    \cup {<<"stock", writes[q][i].id>> : i \in {j \in DOMAIN writes[q] : writes[q][j].k = "stock_upd"}}
    \cup {<<"price", writes[q][i].id>> : i \in {j \in DOMAIN writes[q] : writes[q][j].k = "price_upd"}}
    \cup {<<"price", id>> : id \in UNION {writes[q][i].ids : i \in {j \in DOMAIN writes[q] : writes[q][j].k = "price_close"}}}
    \cup {<<"invite", writes[q][i].token>> : i \in {j \in DOMAIN writes[q] : writes[q][j].k = "invite_upd"}}

\* The rows of the table that handler q's open transaction has deleted.
Deleted(q, table) ==
    UNION {writes[q][i].ids : i \in {j \in DOMAIN writes[q] :
                                        writes[q][j].k = "del" /\ writes[q][j].table = table}}

\* A statement on the rows proceeds only when no other transaction has deleted them.
DeleteFree(p, table, ids) == \A q \in Procs \ {p} : Deleted(q, table) \cap ids = {}

\* Another open transaction has deleted the Organization row.
OrgDeleting(p, org) ==
    \E q \in Procs \ {p} : \E i \in DOMAIN writes[q] :
        writes[q][i].k = "org_del" /\ writes[q][i].id = org

\* An UPDATE of the row proceeds only when no other transaction holds its lock.
LockFree(p, table, id) == \A q \in Procs \ {p} : <<table, id>> \notin Locks(q)

\* A statement run through the transaction client tx.
TxStmt(p, ws) ==
    /\ writes' = [writes EXCEPT ![p] = @ \o ws]
    /\ db' = db

\* Variant of Throw: the failing action still writes the last-modified marker.
Throw_Invalidates(p, msg) ==
    /\ writes' = [writes EXCEPT ![p] = <<>>]
    /\ result' = [result EXCEPT ![p] = msg]
    /\ pc' = [pc EXCEPT ![p] = "done"]
    /\ cache' = [cache EXCEPT !.lastModified[req[p].org] = now]
    /\ UNCHANGED <<caller, db, seq, now, req, loc, opsLeft>>

\* Variant of Throw: the statements run before the failure stay applied.
Throw_KeepsWrites(p, msg) ==
    /\ db' = ApplyAll(db, writes[p])
    /\ writes' = [writes EXCEPT ![p] = <<>>]
    /\ result' = [result EXCEPT ![p] = msg]
    /\ pc' = [pc EXCEPT ![p] = "done"]
    /\ UNCHANGED <<caller, cache, seq, now, req, loc, opsLeft>>

\* The callback threw: the transaction rolls back and the action rethrows.
Throw(p, msg) ==
    /\ writes' = [writes EXCEPT ![p] = <<>>]
    /\ result' = [result EXCEPT ![p] = msg]
    /\ pc' = [pc EXCEPT ![p] = "done"]
    /\ UNCHANGED <<caller, cache, db, seq, now, req, loc, opsLeft>>

Goto(p, label) == pc' = [pc EXCEPT ![p] = label]

\* The callback returned: prisma.$transaction commits and the action returns success.
Commit(p) ==
    /\ pc[p] = "commit"
    /\ db' = ApplyAll(db, writes[p])
    /\ writes' = [writes EXCEPT ![p] = <<>>]
    /\ result' = [result EXCEPT ![p] = "success"]
    /\ pc' = [pc EXCEPT ![p] = "done"]
    /\ UNCHANGED <<caller, cache, seq, now, req, loc, opsLeft>>

\* The actions that call CacheService.invalidateProducts(orgId) after their write.
InvalidatingOps ==
    {"addProduct", "updateProduct", "deleteProduct", "bulkUpdateProducts", "updateProductStock"}

\* Variant of ToInvalidate: the pass also runs after a failed write.
ToInvalidate_AnyResult(p) ==
    pc[p] = "done" /\ req[p].op \in InvalidatingOps

\* The action's write succeeded and its invalidateProducts call is still to run.
ToInvalidate(p) ==
    pc[p] = "done" /\ result[p] = "success" /\ req[p].op \in InvalidatingOps

\* The action's promise settles and the request handler ends.
Return(p) ==
    /\ \/ pc[p] = "done" /\ ~ToInvalidate(p)
       \/ pc[p] = "settled"
    /\ pc' = [pc EXCEPT ![p] = "idle"]
    /\ req' = [req EXCEPT ![p] = NoReq]
    /\ loc' = [loc EXCEPT ![p] = NoLoc]
    /\ result' = [result EXCEPT ![p] = "none"]
    /\ UNCHANGED <<caller, cache, db, seq, now, writes, opsLeft>>

\* The environment may call a server action on handler p.
CanCall(p) == pc[p] = "idle" /\ opsLeft > 0

\* A server action is called.
Call(p, r, label) ==
    /\ CanCall(p)
    /\ opsLeft' = opsLeft - 1
    /\ req' = [req EXCEPT ![p] = r]
    /\ pc' = [pc EXCEPT ![p] = label]
    /\ UNCHANGED <<caller, cache, db, seq, now, loc, writes, result>>

StocksOf(d, p, w) == {r \in d.stock : r.product = p /\ r.warehouse = w}

------------------------------------------------------------------------------
(* updateProductStock(orgId, productId, warehouseId, adjustment) *)

InsufficientAdjust == "Insufficient stock for this adjustment"

UpdateProductStockCall(p) ==
    /\ CanCall(p)
    /\ \E pr \in db.products, w \in db.warehouses, a \in Args :
        Call(p, [op |-> "updateProductStock", org |-> pr.org, product |-> pr.id,
                 warehouse |-> w.id, adjustment |-> a], "ups_find")

\* Variant of UpsFind: the newQuantity < 0 guard is missing.
UpsFind_NoGuard(p) ==
    /\ pc[p] = "ups_find"
    /\ LET found == StocksOf(View(p), req[p].product, req[p].warehouse) IN
       \E existingStock \in (IF found = {} THEN {NoRow} ELSE found) :
          LET newQuantity == (IF existingStock.id = NULL THEN 0 ELSE existingStock.quantity)
                             + req[p].adjustment IN
          /\ loc' = [loc EXCEPT ![p] = [existingStock |-> existingStock, newQuantity |-> newQuantity]]
          /\ Goto(p, "ups_write")
          /\ UNCHANGED <<caller, cache, db, seq, now, req, writes, result, opsLeft>>

\* findFirst + newQuantity + the guard
UpsFind(p) ==
    /\ pc[p] = "ups_find"
    /\ LET found == StocksOf(View(p), req[p].product, req[p].warehouse) IN
       \E existingStock \in (IF found = {} THEN {NoRow} ELSE found) :
          LET newQuantity == (IF existingStock.id = NULL THEN 0 ELSE existingStock.quantity)
                             + req[p].adjustment IN
          IF newQuantity < 0
          THEN Throw(p, InsufficientAdjust)
          ELSE /\ loc' = [loc EXCEPT ![p] = [existingStock |-> existingStock, newQuantity |-> newQuantity]]
               /\ Goto(p, "ups_write")
               /\ UNCHANGED <<caller, cache, db, seq, now, req, writes, result, opsLeft>>

\* productStock.update of the row found, or productStock.create
UpsWrite(p) ==
    /\ pc[p] = "ups_write"
    /\ IF loc[p].existingStock.id # NULL
       THEN /\ LockFree(p, "stock", loc[p].existingStock.id)
            /\ TxStmt(p, <<[k |-> "stock_upd", id |-> loc[p].existingStock.id,
                            quantity |-> loc[p].newQuantity]>>)
            /\ seq' = seq
       ELSE /\ TxStmt(p, <<[k |-> "stock_ins",
                            row |-> StockRow(seq.stock, req[p].product, req[p].warehouse,
                                            Max(0, req[p].adjustment))]>>)
            /\ seq' = [seq EXCEPT !.stock = @ + 1]
    /\ Goto(p, "ups_log")
    /\ UNCHANGED <<caller, cache, now, req, loc, result, opsLeft>>

\* stockMovement.create
UpsLog(p) ==
    /\ pc[p] = "ups_log"
    /\ TxStmt(p, <<[k |-> "movement_ins",
                    row |-> MovementRow(req[p].product, req[p].warehouse,
                                        IF req[p].adjustment > 0 THEN "in" ELSE "out",
                                        Abs(req[p].adjustment))]>>)
    /\ Goto(p, "commit")
    /\ UNCHANGED <<caller, cache, seq, now, req, loc, result, opsLeft>>

------------------------------------------------------------------------------
(* transferStock(orgId, productId, fromWarehouseId, toWarehouseId, quantity) *)

InsufficientTransfer == "Insufficient stock in source warehouse"

TransferStockCall(p) ==
    /\ CanCall(p)
    /\ \E pr \in db.products, f \in db.warehouses, t \in db.warehouses, q \in Args :
        Call(p, [op |-> "transferStock", org |-> pr.org, product |-> pr.id,
                 from |-> f.id, to |-> t.id, quantity |-> q], "ts_find_from")

\* Variant of TsFindFrom: the guard tests only that the source row exists.
TsFindFrom_NoQuantityCheck(p) ==
    /\ pc[p] = "ts_find_from"
    /\ LET found == StocksOf(View(p), req[p].product, req[p].from) IN
       \E fromStock \in (IF found = {} THEN {NoRow} ELSE found) :
          IF fromStock.id = NULL
          THEN Throw(p, InsufficientTransfer)
          ELSE /\ loc' = [loc EXCEPT ![p] = [fromStock |-> fromStock]]
               /\ Goto(p, "ts_debit")
               /\ UNCHANGED <<caller, cache, db, seq, now, req, writes, result, opsLeft>>

\* findFirst of the source row + the guard
TsFindFrom(p) ==
    /\ pc[p] = "ts_find_from"
    /\ LET found == StocksOf(View(p), req[p].product, req[p].from) IN
       \E fromStock \in (IF found = {} THEN {NoRow} ELSE found) :
          IF fromStock.id = NULL \/ fromStock.quantity < req[p].quantity
          THEN Throw(p, InsufficientTransfer)
          ELSE /\ loc' = [loc EXCEPT ![p] = [fromStock |-> fromStock]]
               /\ Goto(p, "ts_debit")
               /\ UNCHANGED <<caller, cache, db, seq, now, req, writes, result, opsLeft>>

\* Variant of TsDebit: the update runs on the global client (prisma), not on tx,
\* so it commits on its own.
TsDebit_GlobalClient(p) ==
    /\ pc[p] = "ts_debit"
    /\ LockFree(p, "stock", loc[p].fromStock.id)
    /\ db' = ApplyWrite(db, [k |-> "stock_upd", id |-> loc[p].fromStock.id,
                             quantity |-> loc[p].fromStock.quantity - req[p].quantity])
    /\ Goto(p, "ts_find_to")
    /\ UNCHANGED <<caller, cache, seq, now, req, loc, writes, result, opsLeft>>

\* productStock.update of the source row
TsDebit(p) ==
    /\ pc[p] = "ts_debit"
    /\ LockFree(p, "stock", loc[p].fromStock.id)
    /\ TxStmt(p, <<[k |-> "stock_upd", id |-> loc[p].fromStock.id,
                    quantity |-> loc[p].fromStock.quantity - req[p].quantity]>>)
    /\ Goto(p, "ts_find_to")
    /\ UNCHANGED <<caller, cache, seq, now, req, loc, result, opsLeft>>

\* findFirst of the destination row
TsFindTo(p) ==
    /\ pc[p] = "ts_find_to"
    /\ LET found == StocksOf(View(p), req[p].product, req[p].to) IN
       \E toStock \in (IF found = {} THEN {NoRow} ELSE found) :
          loc' = [loc EXCEPT ![p] = [fromStock |-> loc[p].fromStock, toStock |-> toStock]]
    /\ Goto(p, "ts_credit")
    /\ UNCHANGED <<caller, cache, db, seq, now, req, writes, result, opsLeft>>

\* Variant of TsCredit: the destination row is overwritten with the quantity moved.
TsCredit_Overwrite(p) ==
    /\ pc[p] = "ts_credit"
    /\ IF loc[p].toStock.id # NULL
       THEN /\ LockFree(p, "stock", loc[p].toStock.id)
            /\ TxStmt(p, <<[k |-> "stock_upd", id |-> loc[p].toStock.id,
                            quantity |-> req[p].quantity]>>)
            /\ seq' = seq
       ELSE /\ TxStmt(p, <<[k |-> "stock_ins",
                            row |-> StockRow(seq.stock, req[p].product, req[p].to, req[p].quantity)]>>)
            /\ seq' = [seq EXCEPT !.stock = @ + 1]
    /\ Goto(p, "commit")
    /\ UNCHANGED <<caller, cache, now, req, loc, result, opsLeft>>

\* productStock.update of the destination row, or productStock.create
TsCredit(p) ==
    /\ pc[p] = "ts_credit"
    /\ IF loc[p].toStock.id # NULL
       THEN /\ LockFree(p, "stock", loc[p].toStock.id)
            /\ TxStmt(p, <<[k |-> "stock_upd", id |-> loc[p].toStock.id,
                            quantity |-> loc[p].toStock.quantity + req[p].quantity]>>)
            /\ seq' = seq
       ELSE /\ TxStmt(p, <<[k |-> "stock_ins",
                            row |-> StockRow(seq.stock, req[p].product, req[p].to, req[p].quantity)]>>)
            /\ seq' = [seq EXCEPT !.stock = @ + 1]
    /\ Goto(p, "commit")
    /\ UNCHANGED <<caller, cache, now, req, loc, result, opsLeft>>

------------------------------------------------------------------------------
(* The store's deadlock detector: two transactions each waiting for a row the *)
(* other has locked; the store aborts one of them.                            *)

WaitsFor(p) ==
    CASE pc[p] = "ups_write" /\ loc[p].existingStock.id # NULL -> {<<"stock", loc[p].existingStock.id>>}
      [] pc[p] = "ts_debit" -> {<<"stock", loc[p].fromStock.id>>}
      [] pc[p] = "ts_credit" /\ loc[p].toStock.id # NULL -> {<<"stock", loc[p].toStock.id>>}
      [] OTHER -> {}

DeadlockDetected == "deadlock detected"

DeadlockAbort(p) ==
    /\ \E q \in Procs \ {p} :
          /\ WaitsFor(p) \cap Locks(q) # {}
          /\ WaitsFor(q) \cap Locks(p) # {}
    /\ Throw(p, DeadlockDetected)

------------------------------------------------------------------------------
(* The server clock advances between any two statements.  Timestamps are
   positive, so that none of them is NULL. *)

Tick ==
    /\ now < 1 + MaxTime
    /\ now' = now + 1
    /\ UNCHANGED <<caller, cache, db, seq, pc, req, loc, writes, result, opsLeft>>

------------------------------------------------------------------------------
(* getOrCreateDefaultWarehouse(orgId): runs on the global client, outside any *)
(* transaction; findFirst has no orderBy, so any warehouse of the organization *)
(* may be returned.                                                           *)

\* The item the loop of bulkUpdateProducts is at (the first one outside the loop).
BuIndex(p) == IF "i" \in DOMAIN loc[p] THEN loc[p].i ELSE 1

WarehousesOf(d, org) == {w \in d.warehouses : w.org = org}

GetOrCreateDefaultWarehouse(p, org, label) ==
    /\ IF WarehousesOf(db, org) # {}
       THEN /\ \E w \in WarehousesOf(db, org) :
                  loc' = [loc EXCEPT ![p] = [i |-> BuIndex(p), warehouse |-> w.id,
                                             created |-> FALSE]]
            /\ UNCHANGED <<caller, cache, db, seq>>
       ELSE /\ db' = [db EXCEPT !.warehouses = @ \cup {WarehouseRow(seq.warehouse, org, now)}]
            /\ seq' = [seq EXCEPT !.warehouse = @ + 1]
            /\ loc' = [loc EXCEPT ![p] = [i |-> BuIndex(p), warehouse |-> seq.warehouse,
                                       created |-> TRUE]]
    /\ Goto(p, label)
    /\ UNCHANGED <<caller, cache, now, req, writes, result, opsLeft>>

------------------------------------------------------------------------------
(* The unique index "Product_org_id_sku_key" on Product(org_id, sku), and the  *)
(* error the store raises when a statement violates it.                       *)

Orgs == {1, 2}

SkuIndex == "Product_org_id_sku_key"

\* A product other than `self` of the organization has the SKU.
SkuTaken_NoIndex(d, org, sku, self) == FALSE

SkuTaken(d, org, sku, self) ==
    \E r \in d.products : r.org = org /\ r.sku = sku /\ r.id # self

\* Another open transaction has written a row that decides whether the key is
\* taken: the statement waits until that transaction ends.
SkuWaits(p, org, sku, self) ==
    \E q \in Procs \ {p} :
        SkuTaken(ApplyAll(db, writes[q]), org, sku, self) # SkuTaken(db, org, sku, self)

\* The store's error, as the parts of its message: the failure and the index.
UniqueViolation == <<"Unique constraint failed", SkuIndex>>

\* error.message.includes(part)
Includes(message, part) == \E i \in DOMAIN message : message[i] = part

UniqueConstraintFailed == "Unique constraint failed"
DuplicateSku == "SKU already exists in this organization"

\* catch of addProduct and updateProduct: the dedicated error when the message
\* names "unique_sku_per_organization", the store's error otherwise.
CatchSku(message) ==
    IF Includes(message, "unique_sku_per_organization")
    THEN DuplicateSku
    ELSE UniqueConstraintFailed

\* catch of updateProductDetails and bulkUpdateProducts: the error is rethrown.
Rethrow(message) == UniqueConstraintFailed

Skus == {1, 2}

------------------------------------------------------------------------------
(* addProduct(orgId, {sku, stock, price, ...}) *)

AddProductCall(p) ==
    /\ CanCall(p)
    /\ \E org \in Orgs, sku \in Skus, stock \in Args, price \in Prices :
        Call(p, [op |-> "addProduct", org |-> org, sku |-> sku, stock |-> stock,
                 price |-> price], "ap_warehouse")

ApWarehouse(p) ==
    /\ pc[p] = "ap_warehouse"
    /\ GetOrCreateDefaultWarehouse(p, req[p].org, "ap_create")

\* Variant of ApCreate: the stock row is created on the global client (prisma),
\* not on tx, so it commits on its own.
ApCreate_GlobalStock(p) ==
    /\ pc[p] = "ap_create"
    /\ ~SkuWaits(p, req[p].org, req[p].sku, seq.product)
    /\ IF SkuTaken(View(p), req[p].org, req[p].sku, seq.product)
       THEN /\ writes' = [writes EXCEPT ![p] = <<>>]
            /\ result' = [result EXCEPT ![p] = CatchSku(UniqueViolation)]
            /\ seq' = [seq EXCEPT !.product = @ + 1]
            /\ Goto(p, "done")
            /\ UNCHANGED <<caller, cache, db, now, req, loc, opsLeft>>
       ELSE IF loc[p].warehouse \notin {w.id : w \in db.warehouses}
       THEN /\ writes' = [writes EXCEPT ![p] = <<>>]
            /\ result' = [result EXCEPT ![p] = "Foreign key constraint failed"]
            /\ seq' = [seq EXCEPT !.product = @ + 1, !.stock = @ + 1]
            /\ Goto(p, "done")
            /\ UNCHANGED <<caller, cache, db, now, req, loc, opsLeft>>
       ELSE /\ writes' = [writes EXCEPT ![p] = @ \o
                          <<[k |-> "product_ins",
                             row |-> ProductRow(seq.product, req[p].org, req[p].sku)],
                            [k |-> "price_ins",
                             row |-> PriceRow(seq.price, seq.product, req[p].price, now)]>>]
            /\ db' = ApplyWrite(db, [k |-> "stock_ins",
                                     row |-> StockRow(seq.stock, seq.product, loc[p].warehouse,
                                                      req[p].stock)])
            /\ seq' = [seq EXCEPT !.product = @ + 1, !.stock = @ + 1, !.price = @ + 1]
            /\ Goto(p, "commit")
            /\ UNCHANGED <<caller, cache, now, req, loc, result, opsLeft>>

\* product.create, productStock.create, productPrice.create, then the callback
\* returns.  product.create waits for and checks the unique index; the
\* insert of the stock row is refused when its warehouse is gone
\* (ProductStock_warehouse_id_fkey).  A failed insert has still drawn its id
\* from the sequence.
ApCreate(p) ==
    /\ pc[p] = "ap_create"
    /\ ~SkuWaits(p, req[p].org, req[p].sku, seq.product)
    /\ IF SkuTaken(View(p), req[p].org, req[p].sku, seq.product)
       THEN /\ writes' = [writes EXCEPT ![p] = <<>>]
            /\ result' = [result EXCEPT ![p] = CatchSku(UniqueViolation)]
            /\ seq' = [seq EXCEPT !.product = @ + 1]
            /\ Goto(p, "done")
            /\ UNCHANGED <<caller, cache, db, now, req, loc, opsLeft>>
       ELSE IF loc[p].warehouse \notin {w.id : w \in db.warehouses}
       THEN /\ writes' = [writes EXCEPT ![p] = <<>>]
            /\ result' = [result EXCEPT ![p] = "Foreign key constraint failed"]
            /\ seq' = [seq EXCEPT !.product = @ + 1, !.stock = @ + 1]
            /\ Goto(p, "done")
            /\ UNCHANGED <<caller, cache, db, now, req, loc, opsLeft>>
       ELSE /\ TxStmt(p, <<[k |-> "product_ins",
                            row |-> ProductRow(seq.product, req[p].org, req[p].sku)],
                           [k |-> "stock_ins",
                            row |-> StockRow(seq.stock, seq.product, loc[p].warehouse, req[p].stock)],
                           [k |-> "price_ins",
                            row |-> PriceRow(seq.price, seq.product, req[p].price, now)]>>)
            /\ seq' = [seq EXCEPT !.product = @ + 1, !.stock = @ + 1, !.price = @ + 1]
            /\ Goto(p, "commit")
            /\ UNCHANGED <<caller, cache, now, req, loc, result, opsLeft>>

------------------------------------------------------------------------------
(* Price statements shared by updateProduct and updateProductDetails *)

OpenPrices(d, product) == {r \in d.prices : r.product = product /\ r.valid_to = NULL}

\* Variant of ClosePricesBegin: the where clause of updateMany matches no row, so
\* the open rows stay open when the new one is created.
ClosePricesBegin_MatchesNothing(p, product, label) ==
    /\ loc' = [loc EXCEPT ![p] = [closing |-> {}]]
    /\ Goto(p, label)
    /\ UNCHANGED <<caller, cache, db, seq, now, req, writes, result, opsLeft>>

\* productPrice.updateMany({where: {product_id, valid_to: null}, data: {valid_to: new Date()}})
\* The statement starts: its snapshot fixes the rows it is going to update.
ClosePricesBegin(p, product, label) ==
    /\ loc' = [loc EXCEPT ![p] = [closing |-> {r.id : r \in OpenPrices(View(p), product)}]]
    /\ Goto(p, label)
    /\ UNCHANGED <<caller, cache, db, seq, now, req, writes, result, opsLeft>>

\* Variant of ClosePricesEnd: updateMany runs on the global client (prisma), not
\* on tx, so the rows are closed before the transaction commits.
ClosePricesEnd_GlobalClient(p, product, label) ==
    /\ \A id \in loc[p].closing : LockFree(p, "price", id)
    /\ LET open == {r.id : r \in OpenPrices(View(p), product)} \cap loc[p].closing IN
          db' = ApplyWrite(db, [k |-> "price_close", ids |-> open, valid_to |-> now])
    /\ Goto(p, label)
    /\ UNCHANGED <<caller, cache, seq, now, req, loc, writes, result, opsLeft>>

\* The statement ends: once it holds the lock of every row of its snapshot, it
\* updates those that still satisfy valid_to = null in their latest version.
ClosePricesEnd(p, product, label) ==
    /\ \A id \in loc[p].closing : LockFree(p, "price", id)
    /\ LET open == {r.id : r \in OpenPrices(View(p), product)} \cap loc[p].closing IN
          TxStmt(p, <<[k |-> "price_close", ids |-> open, valid_to |-> now]>>)
    /\ Goto(p, label)
    /\ UNCHANGED <<caller, cache, seq, now, req, loc, result, opsLeft>>

\* productPrice.create({data: {product_id, retail_price, valid_from: new Date()}})
CreatePrice(p, product, retail, label) ==
    /\ TxStmt(p, <<[k |-> "price_ins", row |-> PriceRow(seq.price, product, retail, now)]>>)
    /\ seq' = [seq EXCEPT !.price = @ + 1]
    /\ Goto(p, label)
    /\ UNCHANGED <<caller, cache, now, req, loc, result, opsLeft>>

\* Variant of UpdateProductRow: product.update runs on the global client (prisma),
\* not on tx, so the row's lock is released at once.
UpdateProductRow_GlobalClient(p, product, status, sku, caught, label) ==
    /\ LockFree(p, "product", product)
    /\ db' = ApplyWrite(db, [k |-> "product_upd", id |-> product, status |-> status, sku |-> sku])
    /\ Goto(p, label)
    /\ UNCHANGED <<caller, cache, seq, now, req, loc, writes, result, opsLeft>>

\* product.update: takes the product row's lock until the transaction ends, and
\* fails on the unique index when another product of the organization has the SKU.
UpdateProductRow(p, product, status, sku, caught, label) ==
    /\ LockFree(p, "product", product)
    /\ LET org == (CHOOSE r \in View(p).products : r.id = product).org IN
       /\ ~SkuWaits(p, org, sku, product)
       /\ IF SkuTaken(View(p), org, sku, product)
          THEN Throw(p, caught)
          ELSE /\ TxStmt(p, <<[k |-> "product_upd", id |-> product, status |-> status,
                               sku |-> sku]>>)
               /\ Goto(p, label)
               /\ UNCHANGED <<caller, cache, seq, now, req, loc, result, opsLeft>>

ProductIds(d) == {r.id : r \in d.products}
ProductIn(d, id, org) == {r \in d.products : r.id = id /\ r.org = org}

------------------------------------------------------------------------------
(* updateProduct(orgId, productId, {stock, price, ...}) *)

ProductNotFound == "Product not found in this organization"

UpdateProductCall(p) ==
    /\ CanCall(p)
    /\ \E org \in Orgs, id \in ProductIds(db), sku \in Skus, stock \in Args, price \in Prices :
        Call(p, [op |-> "updateProduct", org |-> org, product |-> id, sku |-> sku,
                 stock |-> stock, price |-> price], "up_find")

\* product.findFirst + the guard
UpFind(p) ==
    /\ pc[p] = "up_find"
    /\ IF ProductIn(View(p), req[p].product, req[p].org) = {}
       THEN Throw(p, ProductNotFound)
       ELSE /\ Goto(p, "up_update")
            /\ UNCHANGED <<caller, cache, db, seq, now, req, loc, writes, result, opsLeft>>

UpUpdate(p) ==
    /\ pc[p] = "up_update"
    /\ LET row == CHOOSE r \in View(p).products : r.id = req[p].product IN
          UpdateProductRow(p, req[p].product, row.status, req[p].sku,
                           CatchSku(UniqueViolation), "up_stock_find")

\* productStock.findFirst({where: {product_id}}): any stock row of the product
UpStockFind(p) ==
    /\ pc[p] = "up_stock_find"
    /\ LET found == {r \in View(p).stock : r.product = req[p].product} IN
       \E stockEntry \in (IF found = {} THEN {NoRow} ELSE found) :
          /\ loc' = [loc EXCEPT ![p] = [stockEntry |-> stockEntry]]
          /\ Goto(p, IF stockEntry.id # NULL THEN "up_stock_write" ELSE "up_price_close")
    /\ UNCHANGED <<caller, cache, db, seq, now, req, writes, result, opsLeft>>

\* productStock.update({data: {quantity: productData.stock}})
UpStockWrite(p) ==
    /\ pc[p] = "up_stock_write"
    /\ LockFree(p, "stock", loc[p].stockEntry.id)
    /\ TxStmt(p, <<[k |-> "stock_upd", id |-> loc[p].stockEntry.id, quantity |-> req[p].stock]>>)
    /\ Goto(p, "up_price_close")
    /\ UNCHANGED <<caller, cache, seq, now, req, loc, result, opsLeft>>

UpPriceClose(p) ==
    /\ pc[p] = "up_price_close"
    /\ ClosePricesBegin(p, req[p].product, "up_price_closing")

UpPriceClosing(p) ==
    /\ pc[p] = "up_price_closing"
    /\ ClosePricesEnd(p, req[p].product, "up_price_create")

UpPriceCreate(p) ==
    /\ pc[p] = "up_price_create"
    /\ CreatePrice(p, req[p].product, req[p].price, "commit")

------------------------------------------------------------------------------
(* updateProductDetails(orgId, productId, data) *)

RecordNotFound == "Record to update not found"
Statuses == {"active", "inactive", "discontinued"}

\* An optional field of the data: {} when undefined, {x} when given.
Optional(S) == {{}} \cup {{x} : x \in S}

\* The value an update writes for an optional field: the given one, or the row's.
Given(option, current) == IF option = {} THEN current ELSE CHOOSE x \in option : TRUE

\* data.sku and data.price are optional
UpdateProductDetailsCall(p) ==
    /\ CanCall(p)
    /\ \E org \in Orgs, id \in ProductIds(db), status \in Statuses,
       sku \in Optional(Skus), price \in Optional(Prices) :
        Call(p, [op |-> "updateProductDetails", org |-> org, product |-> id,
                 status |-> status, sku |-> sku, price |-> price], "upd_update")

\* data is typed any: data.status is whatever string the client sends.
StatusArgs == Statuses \cup {" active ", "archived"}

\* String.prototype.trim on the status strings above
Trim(s) == IF s = " active " THEN "active" ELSE s

\* updateProductDetails with a status outside the three the type of
\* updateProductStatus names
UpdateProductDetailsAnyCall(p) ==
    /\ CanCall(p)
    /\ \E pr \in db.products, status \in StatusArgs \ Statuses :
        Call(p, [op |-> "updateProductDetails", org |-> pr.org, product |-> pr.id,
                 status |-> status, sku |-> {}, price |-> {}], "upd_update")

\* product.update({where: {product_id, org_id}}) + the test on the price fields
UpdUpdate(p) ==
    /\ pc[p] = "upd_update"
    /\ IF ProductIn(View(p), req[p].product, req[p].org) = {}
       THEN Throw(p, RecordNotFound)
       ELSE LET row == CHOOSE r \in View(p).products : r.id = req[p].product IN
               UpdateProductRow(p, req[p].product, Trim(req[p].status), Given(req[p].sku, row.sku),
                                Rethrow(UniqueViolation),
                                IF req[p].price # {} THEN "upd_price_close" ELSE "commit")

UpdPriceClose(p) ==
    /\ pc[p] = "upd_price_close"
    /\ ClosePricesBegin(p, req[p].product, "upd_price_closing")

UpdPriceClosing(p) ==
    /\ pc[p] = "upd_price_closing"
    /\ ClosePricesEnd(p, req[p].product, "upd_price_create")

UpdPriceCreate(p) ==
    /\ pc[p] = "upd_price_create"
    /\ CreatePrice(p, req[p].product, CHOOSE x \in req[p].price : TRUE, "commit")

------------------------------------------------------------------------------
(* bulkUpdateProducts(orgId, updates) *)

BulkStocks == {-1, 1}
BulkItem == [id : 1..2, sku : Optional(Skus), stock : Optional(BulkStocks), price : {{}, {1}}]

\* bulkUpdateProducts is called with a list of n updates
BulkUpdateProductsCall(p, n) ==
    /\ CanCall(p)
    /\ \E org \in Orgs, updates \in [1..n -> BulkItem] :
        /\ \A i \in DOMAIN updates : updates[i].id \in ProductIds(db)
        /\ Call(p, [op |-> "bulkUpdateProducts", org |-> org, updates |-> updates], "bu_update")
        
\* The loop moves on from item i: the next item, or the callback returns.
BuDone(p, i) ==
    /\ loc' = [loc EXCEPT ![p] = [i |-> i + 1]]
    /\ Goto(p, IF i < Len(req[p].updates) THEN "bu_update" ELSE "commit")

\* The price block of item i, when update.data.price !== undefined.
BuToPrice(p, i) ==
    IF req[p].updates[i].price # {}
    THEN loc' = [loc EXCEPT ![p] = [i |-> i]] /\ Goto(p, "bu_price_find")
    ELSE BuDone(p, i)

\* tx.product.update({where: {product_id, org_id}}) of the current item
BuUpdate(p) ==
    /\ pc[p] = "bu_update"
    /\ LET i == BuIndex(p)
           item == req[p].updates[i] IN
       IF ProductIn(View(p), item.id, req[p].org) = {}
       THEN Throw(p, RecordNotFound)
       ELSE LET row == CHOOSE r \in View(p).products : r.id = item.id
                sku == Given(item.sku, row.sku) IN
            /\ LockFree(p, "product", item.id)
            /\ ~SkuWaits(p, req[p].org, sku, item.id)
            /\ IF SkuTaken(View(p), req[p].org, sku, item.id)
               THEN Throw(p, Rethrow(UniqueViolation))
               ELSE /\ TxStmt(p, <<[k |-> "product_upd", id |-> item.id, status |-> row.status,
                                    sku |-> sku]>>)
                    /\ IF item.stock # {}
                       THEN loc' = [loc EXCEPT ![p] = [i |-> i]] /\ Goto(p, "bu_warehouse")
                       ELSE BuToPrice(p, i)
                    /\ UNCHANGED <<caller, cache, seq, now, req, result, opsLeft>>

\* getOrCreateDefaultWarehouse(bigOrgId), on the global client
BuWarehouse(p) ==
    /\ pc[p] = "bu_warehouse"
    /\ GetOrCreateDefaultWarehouse(p, req[p].org, "bu_stock_find")

\* tx.productStock.findFirst({where: {product_id, warehouse_id}})
BuStockFind(p) ==
    /\ pc[p] = "bu_stock_find"
    /\ LET found == StocksOf(View(p), req[p].updates[loc[p].i].id, loc[p].warehouse) IN
       \E existingStock \in (IF found = {} THEN {NoRow} ELSE found) :
          loc' = [loc EXCEPT ![p] = [i |-> loc[p].i, warehouse |-> loc[p].warehouse,
                                     created |-> loc[p].created,
                                     existingStock |-> existingStock]]
    /\ Goto(p, "bu_stock_write")
    /\ UNCHANGED <<caller, cache, db, seq, now, req, writes, result, opsLeft>>

\* productStock.update or productStock.create with Math.max(0, update.data.stock)
BuStockWrite(p) ==
    /\ pc[p] = "bu_stock_write"
    /\ LET item == req[p].updates[loc[p].i]
           quantity == Max(0, CHOOSE x \in item.stock : TRUE) IN
       IF loc[p].existingStock.id # NULL
       THEN /\ LockFree(p, "stock", loc[p].existingStock.id)
            /\ TxStmt(p, <<[k |-> "stock_upd", id |-> loc[p].existingStock.id, quantity |-> quantity]>>)
            /\ seq' = seq
       ELSE /\ TxStmt(p, <<[k |-> "stock_ins",
                            row |-> StockRow(seq.stock, item.id, loc[p].warehouse, quantity)]>>)
            /\ seq' = [seq EXCEPT !.stock = @ + 1]
    /\ BuToPrice(p, loc[p].i)
    /\ UNCHANGED <<caller, cache, now, req, result, opsLeft>>

\* productPrice.findFirst({where: {product_id}, orderBy: {valid_from: 'desc'}})
LatestPrices(d, product) ==
    {r \in d.prices : r.product = product
                      /\ \A o \in d.prices : o.product = product => o.valid_from <= r.valid_from}

BuPriceFind(p) ==
    /\ pc[p] = "bu_price_find"
    /\ LET found == LatestPrices(View(p), req[p].updates[loc[p].i].id) IN
       \E existingPrice \in (IF found = {} THEN {NoRow} ELSE found) :
          loc' = [loc EXCEPT ![p] = [i |-> loc[p].i, existingPrice |-> existingPrice]]
    /\ Goto(p, "bu_price_write")
    /\ UNCHANGED <<caller, cache, db, seq, now, req, writes, result, opsLeft>>

\* productPrice.update of the latest row in place, or productPrice.create
BuPriceWrite(p) ==
    /\ pc[p] = "bu_price_write"
    /\ LET item == req[p].updates[loc[p].i]
           retail == Max(0, CHOOSE x \in item.price : TRUE) IN
       IF loc[p].existingPrice.id # NULL
       THEN /\ LockFree(p, "price", loc[p].existingPrice.id)
            /\ TxStmt(p, <<[k |-> "price_upd", id |-> loc[p].existingPrice.id, retail_price |-> retail]>>)
            /\ seq' = seq
       ELSE /\ TxStmt(p, <<[k |-> "price_ins", row |-> PriceRow(seq.price, item.id, retail, now)]>>)
            /\ seq' = [seq EXCEPT !.price = @ + 1]
    /\ BuDone(p, loc[p].i)
    /\ UNCHANGED <<caller, cache, now, req, result, opsLeft>>

------------------------------------------------------------------------------
(* Order items and product removal.  OrderItem.product_id references Product  *)
(* ON DELETE RESTRICT; ProductStock and ProductPrice reference it ON DELETE   *)
(* CASCADE.                                                                  *)

MaxOrderItems == 1

OrderItemRow(id, product) == [id |-> id, order |-> id, product |-> product]
OrderRow(id, org) == [id |-> id, org |-> org]

OrderItemsOf(d, product) == {o \in d.orderItems : o.product = product}

\* An order is placed elsewhere in the application: an OrderItem row is inserted
\* for a product the store holds (the foreign key refuses any other product id).
PlaceOrderItem ==
    /\ Cardinality(db.orderItems) < MaxOrderItems
    /\ \E pr \in db.products :
          /\ pr.org \in db.orgs
          /\ DeleteFree(NULL, "products", {pr.id})
          /\ ~OrgDeleting(NULL, pr.org)
          /\ LET id == Cardinality(db.orderItems) + 1 IN
             db' = [db EXCEPT !.orders = @ \cup {OrderRow(id, pr.org)},
                              !.orderItems = @ \cup {OrderItemRow(id, pr.id)}]
    /\ UNCHANGED <<caller, cache, seq, now, pc, req, loc, writes, result, opsLeft>>

ProductOrdered == "Cannot delete product because it has been ordered"
ForeignKeyViolation == "Foreign key constraint failed"
RecordToDeleteNotFound == "Record to delete does not exist"

\* Another open transaction has inserted a row that references the product: its
\* key-share lock on the product row lasts until that transaction ends.
KeyShared(p, product) ==
    \E q \in Procs \ {p} : \E i \in DOMAIN writes[q] :
        /\ writes[q][i].k \in {"stock_ins", "price_ins"}
        /\ writes[q][i].row.product = product

\* An autocommitted statement of the global client succeeded and the action goes on
\* to return success.
Succeed(p) ==
    /\ result' = [result EXCEPT ![p] = "success"]
    /\ pc' = [pc EXCEPT ![p] = "done"]

\* Variant of DeleteProductRow: the OrderItem foreign key does not restrict.
DeleteProductRow_NoRestrict(p) ==
    /\ LockFree(p, "product", req[p].product)
    /\ ~KeyShared(p, req[p].product)
    /\ IF req[p].product \notin ProductIds(db)
       THEN Throw(p, RecordToDeleteNotFound)
       ELSE /\ db' = [db EXCEPT !.products = {r \in @ : r.id # req[p].product},
                                !.stock = {r \in @ : r.product # req[p].product},
                                !.prices = {r \in @ : r.product # req[p].product}]
            /\ Succeed(p)
            /\ UNCHANGED <<caller, cache, seq, now, req, loc, writes, opsLeft>>

\* prisma.product.delete({where: {product_id}}) on the global client.  The rows
\* of ProductStock and ProductPrice go with the product.  The definition of the
\* StockMovement table is not among the schema files: its rows of the product
\* either go with it or refuse the delete.
DeleteProductRow(p) ==
    /\ LockFree(p, "product", req[p].product)
    /\ ~KeyShared(p, req[p].product)
    /\ IF req[p].product \notin ProductIds(db)
       THEN Throw(p, RecordToDeleteNotFound)
       ELSE IF OrderItemsOf(db, req[p].product) # {}
       THEN Throw(p, ForeignKeyViolation)
       ELSE \E cascade \in BOOLEAN :
              IF ~cascade /\ \E i \in DOMAIN db.movements : db.movements[i].product = req[p].product
              THEN Throw(p, ForeignKeyViolation)
              ELSE /\ db' = [db EXCEPT !.products = {r \in @ : r.id # req[p].product},
                                       !.stock = {r \in @ : r.product # req[p].product},
                                       !.prices = {r \in @ : r.product # req[p].product},
                                       !.movements = SelectSeq(@, LAMBDA m : m.product # req[p].product)]
                   /\ Succeed(p)
                   /\ UNCHANGED <<caller, cache, seq, now, req, loc, writes, opsLeft>>

\* Promise.all([product.findFirst, orderItem.findFirst]): two reads of the global
\* client, answered by the store in either order.  The first one to be answered:
DeleteFindFirst(p, label) ==
    /\ \E first \in {"product", "orderItem"} :
          loc' = [loc EXCEPT ![p] =
                    [first |-> first,
                     value |-> IF first = "product"
                               THEN ProductIn(db, req[p].product, req[p].org) # {}
                               ELSE OrderItemsOf(db, req[p].product) # {}]]
    /\ Goto(p, label)
    /\ UNCHANGED <<caller, cache, db, seq, now, req, writes, result, opsLeft>>

\* The second read is answered, then the two guards.
DeleteFindSecond(p, label) ==
    LET found == IF loc[p].first = "product" THEN loc[p].value
                 ELSE ProductIn(db, req[p].product, req[p].org) # {}
        ordered == IF loc[p].first = "orderItem" THEN loc[p].value
                   ELSE OrderItemsOf(db, req[p].product) # {}
    IN IF ~found THEN Throw(p, ProductNotFound)
       ELSE IF ordered THEN Throw(p, ProductOrdered)
       ELSE /\ Goto(p, label)
            /\ UNCHANGED <<caller, cache, db, seq, now, req, loc, writes, result, opsLeft>>

------------------------------------------------------------------------------
(* deleteProduct(orgId, productId) *)

DeleteProductCall(p) ==
    /\ CanCall(p)
    /\ \E org \in Orgs, id \in ProductIds(db) :
        Call(p, [op |-> "deleteProduct", org |-> org, product |-> id], "dp_find")

DpFind(p) ==
    /\ pc[p] = "dp_find"
    /\ DeleteFindFirst(p, "dp_guard")

DpGuard(p) ==
    /\ pc[p] = "dp_guard"
    /\ DeleteFindSecond(p, "dp_delete")

DpDelete(p) ==
    /\ pc[p] = "dp_delete"
    /\ DeleteProductRow(p)

------------------------------------------------------------------------------
(* deleteProductDetails(orgId, productId) *)

DeleteProductDetailsCall(p) ==
    /\ CanCall(p)
    /\ \E org \in Orgs, id \in ProductIds(db) :
        Call(p, [op |-> "deleteProductDetails", org |-> org, product |-> id], "dpd_find")

DpdFind(p) ==
    /\ pc[p] = "dpd_find"
    /\ DeleteFindFirst(p, "dpd_guard")

DpdGuard(p) ==
    /\ pc[p] = "dpd_guard"
    /\ DeleteFindSecond(p, "dpd_aggregate")

\* productStock.aggregate: the sum is only logged
DpdAggregate(p) ==
    /\ pc[p] = "dpd_aggregate"
    /\ Goto(p, "dpd_delete")
    /\ UNCHANGED <<caller, cache, db, seq, now, req, loc, writes, result, opsLeft>>

DpdDelete(p) ==
    /\ pc[p] = "dpd_delete"
    /\ DeleteProductRow(p)

------------------------------------------------------------------------------
(* deactivateProduct, activateProduct, updateProductStatus: one               *)
(* prisma.product.update({where: {product_id, org_id}, data: {status}}) on    *)
(* the global client.                                                         *)

StatusUpdateFailed == "Failed to update product status. Please try again."

\* Variant of SetStatus: the status change also closes the product's open prices.
SetStatus_ClosesPrices(p, status, caught) ==
    /\ LockFree(p, "product", req[p].product)
    /\ IF ProductIn(db, req[p].product, req[p].org) = {}
       THEN Throw(p, caught)
       ELSE /\ db' = [db EXCEPT
                        !.products = {IF r.id = req[p].product THEN [r EXCEPT !.status = status]
                                      ELSE r : r \in @},
                        !.prices = {IF r.product = req[p].product /\ r.valid_to = NULL
                                    THEN [r EXCEPT !.valid_to = now] ELSE r : r \in @}]
            /\ Succeed(p)
            /\ UNCHANGED <<caller, cache, seq, now, req, loc, writes, opsLeft>>

SetStatus(p, status, caught) ==
    /\ LockFree(p, "product", req[p].product)
    /\ IF ProductIn(db, req[p].product, req[p].org) = {}
       THEN Throw(p, caught)
       ELSE /\ db' = [db EXCEPT
                        !.products = {IF r.id = req[p].product THEN [r EXCEPT !.status = status]
                                      ELSE r : r \in @}]
            /\ Succeed(p)
            /\ UNCHANGED <<caller, cache, seq, now, req, loc, writes, opsLeft>>

DeactivateProductCall(p) ==
    /\ CanCall(p)
    /\ \E org \in Orgs, id \in ProductIds(db) :
        Call(p, [op |-> "deactivateProduct", org |-> org, product |-> id], "deactivate")

DeactivateUpdate(p) ==
    /\ pc[p] = "deactivate"
    /\ SetStatus(p, "discontinued", RecordNotFound)

ActivateProductCall(p) ==
    /\ CanCall(p)
    /\ \E org \in Orgs, id \in ProductIds(db) :
        Call(p, [op |-> "activateProduct", org |-> org, product |-> id], "activate")

ActivateUpdate(p) ==
    /\ pc[p] = "activate"
    /\ SetStatus(p, "active", RecordNotFound)

UpdateProductStatusCall(p) ==
    /\ CanCall(p)
    /\ \E org \in Orgs, id \in ProductIds(db), status \in Statuses :
        Call(p, [op |-> "updateProductStatus", org |-> org, product |-> id,
                 status |-> status], "set_status")

StatusUpdate(p) ==
    /\ pc[p] = "set_status"
    /\ SetStatus(p, req[p].status, StatusUpdateFailed)

------------------------------------------------------------------------------
(* CacheService over the cache store.  Every call catches the store's error: *)
(* get then yields null, set, del and setLastModified do nothing.            *)

NoEntry == {}

\* The list warmupProductCache maps from the rows: per product of the organization
\* its id, its sku, its stock summed over the warehouses, and the retail price of
\* its latest price row.
ListedStock(d, product) ==
    LET rows == {r \in d.stock : r.product = product}
        Sum[S \in SUBSET rows] ==
            IF S = {} THEN 0
            ELSE LET r == CHOOSE x \in S : TRUE IN r.quantity + Sum[S \ {r}]
    IN Sum[rows]

ProductList(d, org) ==
    {[id |-> r.id, sku |-> r.sku, stock |-> ListedStock(d, r.id),
      price |-> {x.retail_price : x \in
                    {y \in d.prices : /\ y.product = r.id
                                      /\ \A z \in d.prices :
                                            z.product = r.id => z.valid_from <= y.valid_from}}]
     : r \in {x \in d.products : x.org = org}}

\* A string is the sequence of its pieces; the organization id is the decimal
\* string the actions pass on.
Version == "v1"
KeyProducts == "products"
KeyLastModified == "last-modified"
OrgId(org) == ToString(org)

\* Array.prototype.join(sep)
RECURSIVE Join(_, _)
Join(identifiers, sep) ==
    IF identifiers = <<>> THEN <<>>
    ELSE IF Len(identifiers) = 1 THEN identifiers
    ELSE <<Head(identifiers), sep>> \o Join(Tail(identifiers), sep)

\* Variant of getCacheKey: the identifiers are left out of the key.
GetCacheKey_NoIdentifiers(prefix, identifiers) == <<Version, ":", prefix>>

\* `${CACHE_CONFIG.VERSION}:${prefix}:${identifiers.join(':')}`
GetCacheKey(prefix, identifiers) == <<Version, ":", prefix, ":">> \o Join(identifiers, ":")

GetLastModifiedKey(resource, orgId) == GetCacheKey(KeyLastModified, <<resource, orgId>>)

\* The key of the product list of org, as getProducts, setProducts and
\* invalidateProducts compute it.
ProductsKey(org) == GetCacheKey(KeyProducts, <<OrgId(org)>>)

\* cache.products[o] is the value under ProductsKey(o) and cache.lastModified[o]
\* the value under GetLastModifiedKey('products', o): a write or a delete of a
\* key changes every slot whose key it is.
KeyPut(c, key, value) ==
    [c EXCEPT !.products = [o \in Orgs |->
                  IF ProductsKey(o) = key THEN value ELSE c.products[o]],
              !.lastModified = [o \in Orgs |->
                  IF GetLastModifiedKey(KeyProducts, OrgId(o)) = key
                  THEN value ELSE c.lastModified[o]]]

KeyDel(c, key) ==
    [c EXCEPT !.products = [o \in Orgs |->
                  IF ProductsKey(o) = key THEN NoEntry ELSE c.products[o]],
              !.lastModified = [o \in Orgs |->
                  IF GetLastModifiedKey(KeyProducts, OrgId(o)) = key
                  THEN NULL ELSE c.lastModified[o]]]

\* redis.del(key), its error caught
CacheDel(c, org) == IF c.up THEN KeyDel(c, ProductsKey(org)) ELSE c

\* redis.setex(lastModifiedKey, ttl, Date.now()), its error caught
CacheSetLastModified(c, org) ==
    IF c.up THEN KeyPut(c, GetLastModifiedKey(KeyProducts, OrgId(org)), now) ELSE c

\* CACHE_CONFIG.TTL.PRODUCTS, in seconds
TtlProducts == 60 * 15

\* Variant of CacheSet: the entry is stored with no expiry (redis.set).
CacheSet_NoExpiry(c, org, list) ==
    IF c.up
    THEN KeyPut(c, ProductsKey(org), {[list |-> list, at |-> now, ttl |-> NULL]})
    ELSE c

\* redis.setex(key, ttl, JSON.stringify(products)), its error caught.  `at` notes
\* when the entry was written, `ttl` the expiry it was given.
CacheSet(c, org, list) ==
    IF c.up
    THEN KeyPut(c, ProductsKey(org), {[list |-> list, at |-> now, ttl |-> TtlProducts]})
    ELSE c

\* The cache store drops the entry of org once the expiry it was stored with
\* has run out.
CacheExpire(org) ==
    /\ cache.up
    /\ \E e \in cache.products[org] : e.ttl > 0
    /\ cache' = [cache EXCEPT !.products[org] = NoEntry]
    /\ UNCHANGED <<caller, db, seq, now, pc, req, loc, writes, result, opsLeft>>

\* redis.get(key), null when the store fails
CacheGet(c, org) == IF c.up THEN c.products[org] ELSE NoEntry

\* Variant of InvalidateDel: invalidateProducts gives up when del fails.
InvalidateDel_StopsOnFailure(p) ==
    /\ ToInvalidate(p)
    /\ cache' = CacheDel(cache, req[p].org)
    /\ loc' = [loc EXCEPT ![p] = [deleted |-> cache.up]]
    /\ Goto(p, IF cache.up THEN "mark" ELSE "settled")
    /\ UNCHANGED <<caller, db, seq, now, req, writes, result, opsLeft>>

\* invalidateProducts, first call: this.del(key)
InvalidateDel(p) ==
    /\ ToInvalidate(p)
    /\ cache' = CacheDel(cache, req[p].org)
    /\ loc' = [loc EXCEPT ![p] = [deleted |-> cache.up]]
    /\ Goto(p, "mark")
    /\ UNCHANGED <<caller, db, seq, now, req, writes, result, opsLeft>>

\* invalidateProducts, second call: this.setLastModified('products', orgId)
InvalidateMark(p) ==
    /\ pc[p] = "mark"
    /\ cache' = CacheSetLastModified(cache, req[p].org)
    /\ Goto(p, "settled")
    /\ UNCHANGED <<caller, db, seq, now, req, loc, writes, result, opsLeft>>

\* The cache store becomes unreachable, or reachable again.
CacheStoreFails ==
    /\ cache.up
    /\ cache' = [cache EXCEPT !.up = FALSE]
    /\ UNCHANGED <<caller, db, seq, now, pc, req, loc, writes, result, opsLeft>>

CacheStoreRecovers ==
    /\ ~cache.up
    /\ cache' = [cache EXCEPT !.up = TRUE]
    /\ UNCHANGED <<caller, db, seq, now, pc, req, loc, writes, result, opsLeft>>

------------------------------------------------------------------------------
(* warmupProductCache(orgId): findMany on the global client, then             *)
(* CacheService.warmupCache = setProducts = set + setLastModified.            *)

WarmupProductCacheCall(p) ==
    /\ CanCall(p)
    /\ \E org \in Orgs :
        Call(p, [op |-> "warmupProductCache", org |-> org], "warm_read")

WarmRead(p) ==
    /\ pc[p] = "warm_read"
    /\ loc' = [loc EXCEPT ![p] = [list |-> ProductList(db, req[p].org)]]
    /\ Goto(p, "warm_set")
    /\ UNCHANGED <<caller, cache, db, seq, now, req, writes, result, opsLeft>>

WarmSet(p) ==
    /\ pc[p] = "warm_set"
    /\ cache' = CacheSet(cache, req[p].org, loc[p].list)
    /\ Goto(p, "warm_mark")
    /\ UNCHANGED <<caller, db, seq, now, req, loc, writes, result, opsLeft>>

WarmMark(p) ==
    /\ pc[p] = "warm_mark"
    /\ cache' = CacheSetLastModified(cache, req[p].org)
    /\ Succeed(p)
    /\ UNCHANGED <<caller, db, seq, now, req, loc, writes, opsLeft>>

------------------------------------------------------------------------------
(* CacheService.getProducts(orgId), called by a reader of the product list    *)

GetProductsCall(p) ==
    /\ CanCall(p)
    /\ \E org \in Orgs :
        Call(p, [op |-> "getProducts", org |-> org], "get")

GetProducts(p) ==
    /\ pc[p] = "get"
    /\ loc' = [loc EXCEPT ![p] = [got |-> CacheGet(cache, req[p].org)]]
    /\ Succeed(p)
    /\ UNCHANGED <<caller, cache, db, seq, now, req, writes, opsLeft>>

------------------------------------------------------------------------------
(* createWarehouse(orgId, data) and deleteWarehouse(orgId, warehouseId): every *)
(* statement runs on the global client and commits on its own.  The caller is *)
(* a member of orgId with the role the action asks for; warehouseId is any id. *)

LastWarehouse == "Cannot delete the last warehouse. Organizations must have at least one warehouse."
DefaultWarehouse == "Cannot delete the default warehouse. Please set another warehouse as default first."
WarehouseHasStock == "Cannot delete warehouse with existing stock. Please move or remove all stock first."
ReadOfUndefined == "Cannot read properties of undefined (reading 'warehouse_id')"

WarehouseIds(d) == {w.id : w \in d.warehouses}

\* orderBy created_at asc: the row returned first is one of the earliest created;
\* among rows of equal created_at the store picks.
FirstCreated(rows) == {w \in rows : \A x \in rows : w.created_at <= x.created_at}

\* Another open transaction has inserted a stock row of the warehouse: its
\* key-share lock on the warehouse row lasts until that transaction ends.
WarehouseKeyShared(p, warehouse) ==
    \E q \in Procs \ {p} : \E i \in DOMAIN writes[q] :
        /\ writes[q][i].k = "stock_ins"
        /\ writes[q][i].row.warehouse = warehouse

CreateWarehouseCall(p) ==
    /\ CanCall(p)
    /\ \E org \in Orgs :
        Call(p, [op |-> "createWarehouse", org |-> org], "cw_create")

\* prisma.warehouse.create
CwCreate(p) ==
    /\ pc[p] = "cw_create"
    /\ ~OrgDeleting(p, req[p].org)
    /\ IF req[p].org \notin db.orgs
       THEN Throw(p, ForeignKeyViolation)
       ELSE /\ db' = [db EXCEPT !.warehouses = @ \cup {WarehouseRow(seq.warehouse, req[p].org, now)}]
            /\ seq' = [seq EXCEPT !.warehouse = @ + 1]
            /\ Succeed(p)
            /\ UNCHANGED <<caller, cache, now, req, loc, writes, opsLeft>>

DeleteWarehouseCall(p) ==
    /\ CanCall(p)
    /\ \E org \in Orgs, warehouse \in 1..(seq.warehouse - 1) :
        Call(p, [op |-> "deleteWarehouse", org |-> org, warehouse |-> warehouse], "dw_find")

\* warehouse.findMany of orgId by created_at, then the two guards
DwFind(p) ==
    /\ pc[p] = "dw_find"
    /\ LET warehouses == WarehousesOf(db, req[p].org) IN
       IF Cardinality(warehouses) = 1
       THEN Throw(p, LastWarehouse)
       ELSE IF warehouses = {}
       THEN Throw(p, ReadOfUndefined)
       ELSE \E first \in FirstCreated(warehouses) :
              IF first.id = req[p].warehouse
              THEN Throw(p, DefaultWarehouse)
              ELSE /\ Goto(p, "dw_count")
                   /\ UNCHANGED <<caller, cache, db, seq, now, req, loc, writes, result, opsLeft>>

\* productStock.count of warehouseId, then the guard
DwCount(p) ==
    /\ pc[p] = "dw_count"
    /\ LET stockCount == Cardinality({r \in db.stock : r.warehouse = req[p].warehouse}) IN
       IF stockCount > 0
       THEN Throw(p, WarehouseHasStock)
       ELSE /\ Goto(p, "dw_delete")
            /\ UNCHANGED <<caller, cache, db, seq, now, req, loc, writes, result, opsLeft>>

\* prisma.warehouse.delete({where: {warehouse_id}})
DwDelete(p) ==
    /\ pc[p] = "dw_delete"
    /\ ~WarehouseKeyShared(p, req[p].warehouse)
    /\ IF req[p].warehouse \notin WarehouseIds(db)
       THEN Throw(p, RecordToDeleteNotFound)
       ELSE IF \E r \in db.stock : r.warehouse = req[p].warehouse
       THEN Throw(p, ForeignKeyViolation)
       ELSE /\ db' = [db EXCEPT !.warehouses = {w \in @ : w.id # req[p].warehouse}]
            /\ Succeed(p)
            /\ UNCHANGED <<caller, cache, seq, now, req, loc, writes, opsLeft>>

\* updateWarehouse(orgId, warehouseId, data)
WarehouseNames == {1, 2}
WarehouseNotFound == "Warehouse not found in this organization"
RecordToUpdateNotFound == "Record to update not found"

UpdateWarehouseCall(p) ==
    /\ CanCall(p)
    /\ \E org \in Orgs, warehouse \in 1..(seq.warehouse - 1), name \in WarehouseNames :
        Call(p, [op |-> "updateWarehouse", org |-> org, warehouse |-> warehouse,
                 name |-> name], "uw_find")

\* warehouse.findFirst({where: {warehouse_id, org_id}}) and the guard
UwFind(p) ==
    /\ pc[p] = "uw_find"
    /\ IF \E w \in WarehousesOf(db, req[p].org) : w.id = req[p].warehouse
       THEN /\ Goto(p, "uw_update")
            /\ UNCHANGED <<caller, cache, db, seq, now, req, loc, writes, result, opsLeft>>
       ELSE Throw(p, WarehouseNotFound)

\* prisma.warehouse.update({where: {warehouse_id}, data})
UwUpdate(p) ==
    /\ pc[p] = "uw_update"
    /\ IF req[p].warehouse \notin WarehouseIds(db)
       THEN Throw(p, RecordToUpdateNotFound)
       ELSE /\ db' = [db EXCEPT !.warehouses =
                        {IF w.id = req[p].warehouse THEN [w EXCEPT !.name = req[p].name] ELSE w
                         : w \in @}]
            /\ Succeed(p)
            /\ UNCHANGED <<caller, cache, seq, now, req, loc, writes, opsLeft>>

\* updateProductStock and transferStock called with the orgId of an organization
\* other than the product's: orgId, productId and the warehouse ids are
\* independent arguments.
UpdateProductStockForeignCall(p) ==
    /\ CanCall(p)
    /\ \E org \in Orgs, pr \in db.products, w \in db.warehouses, a \in Args :
        /\ org # pr.org
        /\ Call(p, [op |-> "updateProductStock", org |-> org, product |-> pr.id,
                    warehouse |-> w.id, adjustment |-> a], "ups_find")

TransferStockForeignCall(p) ==
    /\ CanCall(p)
    /\ \E org \in Orgs, pr \in db.products, f \in db.warehouses, t \in db.warehouses, q \in Args :
        /\ org # pr.org
        /\ Call(p, [op |-> "transferStock", org |-> org, product |-> pr.id,
                    from |-> f.id, to |-> t.id, quantity |-> q], "ts_find_from")

------------------------------------------------------------------------------
(* The permission gate.  A principal is the session's verified identity with  *)
(* its role in each organization.  auth(), ensureOrganizationMember,          *)
(* getUserRole and hasPermission are lookups: they change no row.             *)

NotMember == "none"
Roles == {"reader", "writer", "admin"}
\* No verified identity: auth() gives no userId, and no role anywhere.
Anonymous == [o \in Orgs |-> "anonymous"]
Principals == {Anonymous} \cup [Orgs -> Roles \cup {NotMember}]

\* A principal who administers every organization.
Owner == [o \in Orgs |-> "admin"]

Writers == {"writer", "read-write", "admin"}
Admins == {"admin"}

Unauthorized == "Unauthorized"
NotAMember == "Not a member of this organization"
InsufficientPermissions == "Insufficient permissions"

HasPermission(role, requiredPerms) == role \in requiredPerms

\* Variant of VerifyPermissions: the role is resolved and never tested.
VerifyPermissions_NoRoleTest(principal, orgId, requiredPerms) ==
    IF principal = Anonymous THEN Unauthorized
    ELSE IF principal[orgId] = NotMember THEN NotAMember
    ELSE "ok"

\* verifyPermissions(orgId, requiredPerms) and the same sequence written out in
\* the other actions: what it throws, or "ok".
VerifyPermissions(principal, orgId, requiredPerms) ==
    IF principal = Anonymous THEN Unauthorized
    ELSE IF principal[orgId] = NotMember THEN NotAMember
    ELSE IF ~HasPermission(principal[orgId], requiredPerms) THEN InsufficientPermissions
    ELSE "ok"

\* The permission set each action passes to the gate.
RequiredPerms(op) == IF op = "deleteWarehouse" THEN Admins ELSE Writers

GatedOps ==
    {"addProduct", "updateProduct", "updateProductDetails", "deleteProduct",
     "deleteProductDetails", "bulkUpdateProducts", "updateProductStock", "transferStock",
     "deactivateProduct", "activateProduct", "updateProductStatus",
     "createWarehouse", "updateWarehouse", "deleteWarehouse"}

\* A session with any principal reaches the handler.
SignIn(p) ==
    /\ pc[p] = "idle"
    /\ \E principal \in Principals : caller' = [caller EXCEPT ![p] = principal]
    /\ UNCHANGED <<db, seq, now, pc, req, loc, writes, result, opsLeft, cache>>

\* The gate let the call that starts in this step through.
Admitted(p) ==
    VerifyPermissions(caller[p], req'[p].org, RequiredPerms(req'[p].op)) = "ok"

\* A call the gate is going to refuse.
RefusedCall(p) ==
    /\ CanCall(p)
    /\ \E op \in GatedOps, org \in Orgs :
        /\ VerifyPermissions(caller[p], org, RequiredPerms(op)) # "ok"
        /\ Call(p, [op |-> op, org |-> org], "gate")

\* The gate throws, before the action's try block or as its first statements.
Refuse(p) ==
    /\ pc[p] = "gate"
    /\ Throw(p, VerifyPermissions(caller[p], req[p].org, RequiredPerms(req[p].op)))

------------------------------------------------------------------------------
(* ensureDefaultWarehouse(orgId)                                              *)

\* ensureOrganizationMember(orgId): what it throws, or "ok".  The role is not
\* looked at.
EnsureOrganizationMember(principal, orgId) ==
    IF principal = Anonymous THEN Unauthorized
    ELSE IF principal[orgId] = NotMember THEN NotAMember
    ELSE "ok"

EnsureDefaultWarehouseCall(p) ==
    /\ CanCall(p)
    /\ \E org \in Orgs :
        Call(p, [op |-> "ensureDefaultWarehouse", org |-> org], "edw_member")

\* auth() and ensureOrganizationMember(orgId)
EdwMember(p) ==
    /\ pc[p] = "edw_member"
    /\ IF EnsureOrganizationMember(caller[p], req[p].org) # "ok"
       THEN Throw(p, EnsureOrganizationMember(caller[p], req[p].org))
       ELSE /\ Goto(p, "edw_find")
            /\ UNCHANGED <<caller, cache, db, seq, now, req, loc, writes, result, opsLeft>>

\* prisma.warehouse.findFirst({where: {org_id}}) and the test of its result
EdwFind(p) ==
    /\ pc[p] = "edw_find"
    /\ IF WarehousesOf(db, req[p].org) # {}
       THEN Succeed(p)
       ELSE Goto(p, "edw_create") /\ result' = result
    /\ UNCHANGED <<caller, cache, db, seq, now, req, loc, writes, opsLeft>>

\* prisma.warehouse.create of the 'Default Warehouse'
EdwCreate(p) ==
    /\ pc[p] = "edw_create"
    /\ ~OrgDeleting(p, req[p].org)
    /\ IF req[p].org \notin db.orgs
       THEN Throw(p, ForeignKeyViolation)
       ELSE /\ db' = [db EXCEPT !.warehouses = @ \cup {WarehouseRow(seq.warehouse, req[p].org, now)}]
            /\ seq' = [seq EXCEPT !.warehouse = @ + 1]
            /\ Succeed(p)
            /\ UNCHANGED <<caller, cache, now, req, loc, writes, opsLeft>>

------------------------------------------------------------------------------
(* acceptInvite(token)                                                        *)

Users == {1, 2}
Tokens == {1, 2}

\* User.email is unique: the user's email stands for the user.
EmailOf(user) == user

MemberUniqueViolation == "Unique constraint failed on the fields: (org_id, user_id)"
InvalidInvitation == "Invalid invitation"
InvitationExpired == "Invitation has expired"
EmailMismatch == "Email mismatch - invitation not for this user"
AlreadyMember == "User is already a member of this organization"

MembersOf(d, org, user) == {m \in d.members : m.org = org /\ m.user = user}

\* Variant of MemberTaken: OrganizationMember has no unique index on (org_id, user_id).
MemberTaken_NoIndex(d, org, user) == FALSE

\* The unique index OrganizationMember_org_id_user_id_key refuses the insert.
MemberTaken(d, org, user) == MembersOf(d, org, user) # {}

\* The insert waits while another transaction holds an uncommitted row of the pair.
MemberWaits(p, org, user) ==
    \E q \in Procs \ {p} : \E i \in DOMAIN writes[q] :
        /\ writes[q][i].k = "member_ins"
        /\ writes[q][i].row.org = org /\ writes[q][i].row.user = user
        /\ MemberTaken([members |-> {writes[q][i].row}], org, user)

AcceptInviteCall(p) ==
    /\ CanCall(p)
    /\ \E token \in Tokens, user \in Users :
        Call(p, [op |-> "acceptInvite", token |-> token, user |-> user], "ai_find")

\* organizationInvite.findUnique({where: {token}}), the status test and the expiry test
AiFind(p) ==
    /\ pc[p] = "ai_find"
    /\ LET found == {i \in db.invites : i.token = req[p].token} IN
       IF found = {}
       THEN Throw(p, InvalidInvitation)
       ELSE \E invite \in found :
          IF invite.status # "pending"
          THEN Throw(p, InvalidInvitation)
          ELSE IF invite.expires_at < now
          THEN Throw(p, InvitationExpired)
          ELSE /\ loc' = [loc EXCEPT ![p] = [invite |-> invite]]
               /\ Goto(p, "ai_member")
               /\ UNCHANGED <<caller, cache, db, seq, now, req, writes, result, opsLeft>>

\* getOrCreateUser, the email test, organizationMember.findUnique and its test
AiMember(p) ==
    /\ pc[p] = "ai_member"
    /\ IF loc[p].invite.email # EmailOf(req[p].user)
       THEN Throw(p, EmailMismatch)
       ELSE IF MembersOf(db, loc[p].invite.org, req[p].user) # {}
       THEN Throw(p, AlreadyMember)
       ELSE /\ Goto(p, "ai_create")
            /\ UNCHANGED <<caller, cache, db, seq, now, req, loc, writes, result, opsLeft>>

\* tx.organizationMember.create
AiCreate(p) ==
    /\ pc[p] = "ai_create"
    /\ ~MemberWaits(p, loc[p].invite.org, req[p].user)
    /\ IF MemberTaken(db, loc[p].invite.org, req[p].user)
       THEN Throw(p, MemberUniqueViolation)
       ELSE IF loc[p].invite.org \notin db.orgs
       THEN Throw(p, ForeignKeyViolation)
       ELSE /\ TxStmt(p, <<[k |-> "member_ins",
                            row |-> MemberRow(seq.member, loc[p].invite.org, req[p].user,
                                              loc[p].invite.role)]>>)
            /\ seq' = [seq EXCEPT !.member = @ + 1]
            /\ Goto(p, "ai_update")
            /\ UNCHANGED <<caller, cache, now, req, loc, result, opsLeft>>

\* tx.organizationInvite.update({where: {token}, data: {status: 'accepted'}})
AiUpdate(p) ==
    /\ pc[p] = "ai_update"
    /\ LockFree(p, "invite", req[p].token)
    /\ IF \A i \in View(p).invites : i.token # req[p].token
       THEN Throw(p, RecordToUpdateNotFound)
       ELSE /\ TxStmt(p, <<[k |-> "invite_upd", token |-> req[p].token, status |-> "accepted"]>>)
            /\ seq' = seq
            /\ Goto(p, "commit")
            /\ UNCHANGED <<caller, cache, now, req, loc, result, opsLeft>>

------------------------------------------------------------------------------
(* deleteOrganization(orgId, force)                                           *)

CannotDelete == "Cannot delete organization. It contains: "
DataDependencies == "Cannot delete organization due to data dependencies. Please use force delete."

ProductsOf(d, org) == {r \in d.products : r.org = org}
OrdersOf(d, org) == {r \in d.orders : r.org = org}
Ids(rows) == {r.id : r \in rows}

\* The organization has a warehouse, product or order row.
HasData(d, org) == WarehousesOf(d, org) # {} \/ ProductsOf(d, org) # {} \/ OrdersOf(d, org) # {}

DeleteOrganizationCall(p) ==
    /\ CanCall(p)
    /\ \E org \in db.orgs, force \in BOOLEAN :
        Call(p, [op |-> "deleteOrganization", org |-> org, force |-> force], "do_count")

\* The three counts of the global client, the refusal without force, and the
\* test that opens the transaction's first block
DoCount(p) ==
    /\ pc[p] = "do_count"
    /\ IF HasData(db, req[p].org) /\ ~req[p].force
       THEN Throw(p, CannotDelete)
       ELSE /\ Goto(p, IF req[p].force /\ HasData(db, req[p].org) THEN "do_items" ELSE "do_invites")
            /\ UNCHANGED <<caller, cache, db, seq, now, req, loc, writes, result, opsLeft>>

\* A statement of the transaction threw: the action's catch rethrows a foreign
\* key failure under its own message.
DoThrow(p, msg) ==
    Throw(p, IF msg = ForeignKeyViolation THEN DataDependencies ELSE msg)

\* tx.<table>.deleteMany of the rows, and of the rows that go with them
DeleteMany(p, table, ids, others, label) ==
    /\ DeleteFree(p, table, ids)
    /\ TxStmt(p, <<[k |-> "del", table |-> table, ids |-> ids]>> \o others)
    /\ Goto(p, label)
    /\ UNCHANGED <<caller, cache, seq, now, req, loc, result, opsLeft>>

\* tx.orderItem.deleteMany({where: {order: {org_id}}})
DoOrderItems(p) ==
    /\ pc[p] = "do_items"
    /\ LET v == View(p) IN
       DeleteMany(p, "orderItems",
                  Ids({i \in v.orderItems : i.order \in Ids(OrdersOf(v, req[p].org))}),
                  <<>>, "do_orders")

\* tx.order.deleteMany({where: {org_id}}); the order's items go with it
DoOrders(p) ==
    /\ pc[p] = "do_orders"
    /\ LET v == View(p)
           ids == Ids(OrdersOf(v, req[p].org)) IN
       DeleteMany(p, "orders", ids,
                  <<[k |-> "del", table |-> "orderItems",
                     ids |-> Ids({i \in v.orderItems : i.order \in ids})]>>, "do_prices")

\* tx.productPrice.deleteMany({where: {product: {org_id}}})
DoPrices(p) ==
    /\ pc[p] = "do_prices"
    /\ LET v == View(p) IN
       DeleteMany(p, "prices",
                  Ids({r \in v.prices : r.product \in Ids(ProductsOf(v, req[p].org))}),
                  <<>>, "do_stock")

\* tx.productStock.deleteMany({where: {product: {org_id}}})
DoStock(p) ==
    /\ pc[p] = "do_stock"
    /\ LET v == View(p) IN
       DeleteMany(p, "stock",
                  Ids({r \in v.stock : r.product \in Ids(ProductsOf(v, req[p].org))}),
                  <<>>, "do_products")

\* The StockMovement rows that name one of the ids in the field.
MovementsOf(d, field, ids) == {i \in DOMAIN d.movements : d.movements[i][field] \in ids}

\* tx.product.deleteMany({where: {org_id}}): refused by an order item of one of
\* the products; their stock and price rows go with them.  The definition of
\* the StockMovement table is not among the schema files: its rows of the
\* products either go with them or refuse the delete.
DoProducts(p) ==
    /\ pc[p] = "do_products"
    /\ LET v == View(p)
           ids == Ids(ProductsOf(v, req[p].org)) IN
       IF \E i \in v.orderItems : i.product \in ids
       THEN DeleteFree(p, "products", ids) /\ DoThrow(p, ForeignKeyViolation)
       ELSE \E cascade \in BOOLEAN :
              IF ~cascade /\ MovementsOf(v, "product", ids) # {}
              THEN DeleteFree(p, "products", ids) /\ DoThrow(p, ForeignKeyViolation)
              ELSE DeleteMany(p, "products", ids,
                              <<[k |-> "del", table |-> "stock",
                                 ids |-> Ids({r \in v.stock : r.product \in ids})],
                                [k |-> "del", table |-> "prices",
                                 ids |-> Ids({r \in v.prices : r.product \in ids})],
                                [k |-> "movements_del", field |-> "product", ids |-> ids]>>,
                              "do_warehouses")

\* tx.warehouse.deleteMany({where: {org_id}}): refused by a stock row in one of
\* the warehouses; StockMovement rows as above.
DoWarehouses(p) ==
    /\ pc[p] = "do_warehouses"
    /\ LET v == View(p)
           ids == Ids(WarehousesOf(v, req[p].org)) IN
       IF \E r \in v.stock : r.warehouse \in ids
       THEN DeleteFree(p, "warehouses", ids) /\ DoThrow(p, ForeignKeyViolation)
       ELSE \E cascade \in BOOLEAN :
              IF ~cascade /\ MovementsOf(v, "warehouse", ids) # {}
              THEN DeleteFree(p, "warehouses", ids) /\ DoThrow(p, ForeignKeyViolation)
              ELSE DeleteMany(p, "warehouses", ids,
                              <<[k |-> "movements_del", field |-> "warehouse", ids |-> ids]>>,
                              "do_invites")

\* tx.organizationInvite.deleteMany({where: {org_id}})
DoInvites(p) ==
    /\ pc[p] = "do_invites"
    /\ DeleteMany(p, "invites", Ids({r \in View(p).invites : r.org = req[p].org}),
                  <<>>, "do_members")

\* tx.organizationMember.deleteMany({where: {org_id}})
DoMembers(p) ==
    /\ pc[p] = "do_members"
    /\ DeleteMany(p, "members", Ids({r \in View(p).members : r.org = req[p].org}),
                  <<>>, "do_organization")

\* Another open transaction has inserted a membership of the organization: its
\* key-share lock on the Organization row lasts until that transaction ends.
OrgKeyShared(p, org) ==
    \E q \in Procs \ {p} : \E i \in DOMAIN writes[q] :
        writes[q][i].k = "member_ins" /\ writes[q][i].row.org = org

\* tx.organization.delete({where: {org_id}}): refused by an invite or a
\* membership of the organization; the org_id of its warehouses, products and
\* orders is set to null.
DoOrganization(p) ==
    /\ pc[p] = "do_organization"
    /\ ~OrgDeleting(p, req[p].org)
    /\ ~OrgKeyShared(p, req[p].org)
    /\ LET v == View(p) IN
       IF req[p].org \notin v.orgs
       THEN DoThrow(p, RecordToDeleteNotFound)
       ELSE IF \E r \in v.invites \cup v.members : r.org = req[p].org
       THEN DoThrow(p, ForeignKeyViolation)
       ELSE /\ TxStmt(p, <<[k |-> "org_del", id |-> req[p].org]>>)
            /\ Goto(p, "commit")
            /\ UNCHANGED <<caller, cache, seq, now, req, loc, result, opsLeft>>

------------------------------------------------------------------------------
(* Initial states *)

InitStore ==
    [products |-> {ProductRow(1, 1, 1)},
     warehouses |-> {WarehouseRow(1, 1, 0), WarehouseRow(2, 1, 1)},
     stock |-> {StockRow(1, 1, 1, 1)},
     movements |-> <<MovementRow(1, 1, "in", 1)>>,
     prices |-> {PriceRow(1, 1, 1, 1)},
     orderItems |-> {},
     orders |-> {},
     orgs |-> Orgs,
     members |-> {MemberRow(1, 1, 1, "admin"), MemberRow(2, 2, 2, "admin")},
     invites |-> {InviteRow(1, 1, 2, "writer", 1)}]

InitCommon ==
    /\ db = InitStore
    /\ seq = [product |-> 2, warehouse |-> 3, stock |-> 2, price |-> 2, member |-> 3]
    /\ now = 1
    /\ pc = [p \in Procs |-> "idle"]
    /\ req = [p \in Procs |-> NoReq]
    /\ loc = [p \in Procs |-> NoLoc]
    /\ writes = [p \in Procs |-> <<>>]
    /\ result = [p \in Procs |-> "none"]
    /\ cache = [up |-> TRUE,
                products |-> [o \in Orgs |-> NoEntry],
                lastModified |-> [o \in Orgs |-> NULL]]
    /\ caller = [p \in Procs |-> Owner]

InitLedger == InitCommon /\ opsLeft = MaxOps

NextLedger ==
    \E p \in Procs :
        \/ UpdateProductStockCall(p)
        \/ UpsFind(p)
        \/ UpsWrite(p)
        \/ UpsLog(p)
        \/ TransferStockCall(p)
        \/ TsFindFrom(p)
        \/ TsDebit(p)
        \/ TsFindTo(p)
        \/ TsCredit(p)
        \/ Commit(p)
        \/ InvalidateDel(p)
        \/ InvalidateMark(p)
        \/ DeadlockAbort(p)
        \/ Return(p)

SpecLedger == InitLedger /\ [][NextLedger]_vars

\* addProduct while warehouses are deleted
InitAdd == InitCommon /\ opsLeft = MaxOps

NextAdd ==
    \E p \in Procs :
        \/ AddProductCall(p)
        \/ ApWarehouse(p)
        \/ ApCreate(p)
        \/ DeleteWarehouseCall(p)
        \/ DwFind(p)
        \/ DwCount(p)
        \/ DwDelete(p)
        \/ Commit(p)
        \/ InvalidateDel(p)
        \/ InvalidateMark(p)
        \/ Return(p)

SpecAdd == InitAdd /\ [][NextAdd]_vars

\* Organizations: deleteOrganization while warehouses and orders are created
InitOrg == InitCommon /\ opsLeft = MaxOps - 1

NextOrg ==
    \/ PlaceOrderItem
    \/ \E p \in Procs :
        \/ DeleteOrganizationCall(p)
        \/ DoCount(p)
        \/ DoOrderItems(p)
        \/ DoOrders(p)
        \/ DoPrices(p)
        \/ DoStock(p)
        \/ DoProducts(p)
        \/ DoWarehouses(p)
        \/ DoInvites(p)
        \/ DoMembers(p)
        \/ DoOrganization(p)
        \/ CreateWarehouseCall(p)
        \/ CwCreate(p)
        \/ Commit(p)
        \/ Return(p)

SpecOrg == InitOrg /\ [][NextOrg]_vars

\* Invitations: acceptInvite calls, concurrently, while the clock advances
InitInvite == InitCommon /\ opsLeft = MaxOps

NextInvite ==
    \/ Tick
    \/ \E p \in Procs :
        \/ AcceptInviteCall(p)
        \/ AiFind(p)
        \/ AiMember(p)
        \/ AiCreate(p)
        \/ AiUpdate(p)
        \/ Commit(p)
        \/ Return(p)

SpecInvite == InitInvite /\ [][NextInvite]_vars

\* Product status: the operations that write it, concurrently
InitStatus == InitCommon /\ opsLeft = MaxOps - 1

NextStatus ==
    \E p \in Procs :
        \/ AddProductCall(p)
        \/ ApWarehouse(p)
        \/ ApCreate(p)
        \/ UpdateProductDetailsCall(p)
        \/ UpdateProductDetailsAnyCall(p)
        \/ UpdUpdate(p)
        \/ UpdPriceClose(p)
        \/ UpdPriceClosing(p)
        \/ UpdPriceCreate(p)
        \/ DeactivateProductCall(p)
        \/ DeactivateUpdate(p)
        \/ ActivateProductCall(p)
        \/ ActivateUpdate(p)
        \/ UpdateProductStatusCall(p)
        \/ StatusUpdate(p)
        \/ Commit(p)
        \/ InvalidateDel(p)
        \/ InvalidateMark(p)
        \/ Return(p)

SpecStatus == InitStatus /\ [][NextStatus]_vars

\* Catalog and price operations
InitCatalog == InitCommon /\ opsLeft = MaxOps - 1

NextCatalog ==
    \/ Tick
    \/ \E p \in Procs :
        \/ AddProductCall(p)
        \/ ApWarehouse(p)
        \/ ApCreate(p)
        \/ UpdateProductCall(p)
        \/ UpFind(p)
        \/ UpUpdate(p)
        \/ UpStockFind(p)
        \/ UpStockWrite(p)
        \/ UpPriceClose(p)
        \/ UpPriceClosing(p)
        \/ UpPriceCreate(p)
        \/ UpdateProductDetailsCall(p)
        \/ UpdUpdate(p)
        \/ UpdPriceClose(p)
        \/ UpdPriceClosing(p)
        \/ UpdPriceCreate(p)
        \/ BulkUpdateProductsCall(p, 1)
        \/ BuUpdate(p)
        \/ BuWarehouse(p)
        \/ BuStockFind(p)
        \/ BuStockWrite(p)
        \/ BuPriceFind(p)
        \/ BuPriceWrite(p)
        \/ Commit(p)
        \/ InvalidateDel(p)
        \/ InvalidateMark(p)
        \/ Return(p)

SpecCatalog == InitCatalog /\ [][NextCatalog]_vars

\* Every operation, the calls issued one after the other
InitSerial == InitCommon /\ opsLeft = MaxOps - 1

NextSerial ==
    \/ Tick
    \/ \E p \in {1} :
        \/ AddProductCall(p)
        \/ ApWarehouse(p)
        \/ ApCreate(p)
        \/ UpdateProductCall(p)
        \/ UpFind(p)
        \/ UpUpdate(p)
        \/ UpStockFind(p)
        \/ UpStockWrite(p)
        \/ UpPriceClose(p)
        \/ UpPriceClosing(p)
        \/ UpPriceCreate(p)
        \/ UpdateProductDetailsCall(p)
        \/ UpdUpdate(p)
        \/ UpdPriceClose(p)
        \/ UpdPriceClosing(p)
        \/ UpdPriceCreate(p)
        \/ \E n \in 1..MaxItems : BulkUpdateProductsCall(p, n)
        \/ BuUpdate(p)
        \/ BuWarehouse(p)
        \/ BuStockFind(p)
        \/ BuStockWrite(p)
        \/ BuPriceFind(p)
        \/ BuPriceWrite(p)
        \/ UpdateProductStockCall(p)
        \/ UpsFind(p)
        \/ UpsWrite(p)
        \/ UpsLog(p)
        \/ TransferStockCall(p)
        \/ TsFindFrom(p)
        \/ TsDebit(p)
        \/ TsFindTo(p)
        \/ TsCredit(p)
        \/ Commit(p)
        \/ InvalidateDel(p)
        \/ InvalidateMark(p)
        \/ Return(p)

SpecSerial == InitSerial /\ [][NextSerial]_vars

\* Product removal and status changes, with orders being placed and the details
\* of products being updated meanwhile
InitLifecycle == InitCommon /\ opsLeft = MaxOps - 1

NextLifecycle ==
    \/ PlaceOrderItem
    \/ \E p \in Procs :
        \/ DeleteProductCall(p)
        \/ DpFind(p)
        \/ DpGuard(p)
        \/ DpDelete(p)
        \/ DeleteProductDetailsCall(p)
        \/ DpdFind(p)
        \/ DpdGuard(p)
        \/ DpdAggregate(p)
        \/ DpdDelete(p)
        \/ DeactivateProductCall(p)
        \/ DeactivateUpdate(p)
        \/ ActivateProductCall(p)
        \/ ActivateUpdate(p)
        \/ UpdateProductStatusCall(p)
        \/ StatusUpdate(p)
        \/ UpdateProductDetailsCall(p)
        \/ UpdUpdate(p)
        \/ UpdPriceClose(p)
        \/ UpdPriceClosing(p)
        \/ UpdPriceCreate(p)
        \/ Commit(p)
        \/ InvalidateDel(p)
        \/ InvalidateMark(p)
        \/ Return(p)

SpecLifecycle == InitLifecycle /\ [][NextLifecycle]_vars

\* The cache: handler 1 runs one mutating action, the first call of the behaviour,
\* while handler 2 warms and reads the cached product list
FirstCall == opsLeft = MaxOps

InitCache == InitCommon /\ opsLeft = MaxOps

NextCache ==
    \/ Tick
    \/ \E p \in {1} :
        \/ FirstCall /\ AddProductCall(p)
        \/ FirstCall /\ UpdateProductCall(p)
        \/ FirstCall /\ UpdateProductDetailsCall(p)
        \/ FirstCall /\ BulkUpdateProductsCall(p, 1)
        \/ FirstCall /\ UpdateProductStockCall(p)
        \/ FirstCall /\ TransferStockCall(p)
        \/ FirstCall /\ DeleteProductCall(p)
        \/ FirstCall /\ DeleteProductDetailsCall(p)
        \/ FirstCall /\ DeactivateProductCall(p)
        \/ FirstCall /\ ActivateProductCall(p)
        \/ FirstCall /\ UpdateProductStatusCall(p)
        \/ ApWarehouse(p)
        \/ ApCreate(p)
        \/ UpFind(p)
        \/ UpUpdate(p)
        \/ UpStockFind(p)
        \/ UpStockWrite(p)
        \/ UpPriceClose(p)
        \/ UpPriceClosing(p)
        \/ UpPriceCreate(p)
        \/ UpdUpdate(p)
        \/ UpdPriceClose(p)
        \/ UpdPriceClosing(p)
        \/ UpdPriceCreate(p)
        \/ BuUpdate(p)
        \/ BuWarehouse(p)
        \/ BuStockFind(p)
        \/ BuStockWrite(p)
        \/ BuPriceFind(p)
        \/ BuPriceWrite(p)
        \/ UpsFind(p)
        \/ UpsWrite(p)
        \/ UpsLog(p)
        \/ TsFindFrom(p)
        \/ TsDebit(p)
        \/ TsFindTo(p)
        \/ TsCredit(p)
        \/ DpFind(p)
        \/ DpGuard(p)
        \/ DpDelete(p)
        \/ DpdFind(p)
        \/ DpdGuard(p)
        \/ DpdAggregate(p)
        \/ DpdDelete(p)
        \/ DeactivateUpdate(p)
        \/ ActivateUpdate(p)
        \/ StatusUpdate(p)
        \/ Commit(p)
        \/ InvalidateDel(p)
        \/ InvalidateMark(p)
        \/ Return(p)
    \/ \E p \in {2} :
        \/ WarmupProductCacheCall(p)
        \/ WarmRead(p)
        \/ WarmSet(p)
        \/ WarmMark(p)
        \/ GetProductsCall(p)
        \/ GetProducts(p)
        \/ Return(p)

SpecCache == InitCache /\ [][NextCache]_vars

\* bulkUpdateProducts over lists of every length, next to a reader of the cache
InitBulk == InitCommon /\ opsLeft = MaxOps - 1

NextBulk ==
    \/ Tick
    \/ \E p \in {1} :
        \/ \E n \in 1..MaxItems : BulkUpdateProductsCall(p, n)
        \/ BuUpdate(p)
        \/ BuWarehouse(p)
        \/ BuStockFind(p)
        \/ BuStockWrite(p)
        \/ BuPriceFind(p)
        \/ BuPriceWrite(p)
        \/ Commit(p)
        \/ InvalidateDel(p)
        \/ InvalidateMark(p)
        \/ Return(p)
    \/ \E p \in {2} :
        \/ WarmupProductCacheCall(p)
        \/ WarmRead(p)
        \/ WarmSet(p)
        \/ WarmMark(p)
        \/ Return(p)

SpecBulk == InitBulk /\ [][NextBulk]_vars

\* A stock update next to readers of the cache, the cache store expiring its
\* entries; the store's expiry is not postponed forever.
InitHeal == InitCommon /\ opsLeft = MaxOps

NextHeal ==
    \/ Tick
    \/ \E org \in Orgs : CacheExpire(org)
    \/ \E p \in {1} :
        \/ UpdateProductStockCall(p)
        \/ UpsFind(p)
        \/ UpsWrite(p)
        \/ UpsLog(p)
        \/ Commit(p)
        \/ InvalidateDel(p)
        \/ InvalidateMark(p)
        \/ Return(p)
    \/ \E p \in {2} :
        \/ WarmupProductCacheCall(p)
        \/ WarmRead(p)
        \/ WarmSet(p)
        \/ WarmMark(p)
        \/ GetProductsCall(p)
        \/ GetProducts(p)
        \/ Return(p)

SpecHeal ==
    /\ InitHeal
    /\ [][NextHeal]_vars
    /\ \A org \in Orgs : WF_vars(CacheExpire(org))

\* One call at a time: a call starts only when no other is in progress
AllIdle == \A q \in Procs : pc[q] = "idle"

NextCacheSerial ==
    \/ Tick
    \/ \E p \in {1} :
        \/ AllIdle /\ AddProductCall(p)
        \/ AllIdle /\ UpdateProductCall(p)
        \/ AllIdle /\ UpdateProductDetailsCall(p)
        \/ AllIdle /\ BulkUpdateProductsCall(p, 1)
        \/ AllIdle /\ UpdateProductStockCall(p)
        \/ AllIdle /\ TransferStockCall(p)
        \/ AllIdle /\ DeleteProductCall(p)
        \/ AllIdle /\ DeleteProductDetailsCall(p)
        \/ AllIdle /\ DeactivateProductCall(p)
        \/ AllIdle /\ ActivateProductCall(p)
        \/ AllIdle /\ UpdateProductStatusCall(p)
        \/ ApWarehouse(p)
        \/ ApCreate(p)
        \/ UpFind(p)
        \/ UpUpdate(p)
        \/ UpStockFind(p)
        \/ UpStockWrite(p)
        \/ UpPriceClose(p)
        \/ UpPriceClosing(p)
        \/ UpPriceCreate(p)
        \/ UpdUpdate(p)
        \/ UpdPriceClose(p)
        \/ UpdPriceClosing(p)
        \/ UpdPriceCreate(p)
        \/ BuUpdate(p)
        \/ BuWarehouse(p)
        \/ BuStockFind(p)
        \/ BuStockWrite(p)
        \/ BuPriceFind(p)
        \/ BuPriceWrite(p)
        \/ UpsFind(p)
        \/ UpsWrite(p)
        \/ UpsLog(p)
        \/ TsFindFrom(p)
        \/ TsDebit(p)
        \/ TsFindTo(p)
        \/ TsCredit(p)
        \/ DpFind(p)
        \/ DpGuard(p)
        \/ DpDelete(p)
        \/ DpdFind(p)
        \/ DpdGuard(p)
        \/ DpdAggregate(p)
        \/ DpdDelete(p)
        \/ DeactivateUpdate(p)
        \/ ActivateUpdate(p)
        \/ StatusUpdate(p)
        \/ Commit(p)
        \/ InvalidateDel(p)
        \/ InvalidateMark(p)
        \/ Return(p)
    \/ \E p \in {2} :
        \/ AllIdle /\ WarmupProductCacheCall(p)
        \/ WarmRead(p)
        \/ WarmSet(p)
        \/ WarmMark(p)
        \/ AllIdle /\ GetProductsCall(p)
        \/ GetProducts(p)
        \/ Return(p)

InitCacheSerial == InitCommon /\ opsLeft = MaxOps - 1

SpecCacheSerial == InitCacheSerial /\ [][NextCacheSerial]_vars

\* The same, with a cache store that fails and recovers at any moment
NextCacheFaults ==
    \/ Tick
    \/ CacheStoreFails
    \/ CacheStoreRecovers
    \/ \E p \in {1} :
        \/ FirstCall /\ AddProductCall(p)
        \/ FirstCall /\ UpdateProductCall(p)
        \/ FirstCall /\ UpdateProductDetailsCall(p)
        \/ FirstCall /\ BulkUpdateProductsCall(p, 1)
        \/ FirstCall /\ UpdateProductStockCall(p)
        \/ FirstCall /\ TransferStockCall(p)
        \/ FirstCall /\ DeleteProductCall(p)
        \/ FirstCall /\ DeleteProductDetailsCall(p)
        \/ FirstCall /\ DeactivateProductCall(p)
        \/ FirstCall /\ ActivateProductCall(p)
        \/ FirstCall /\ UpdateProductStatusCall(p)
        \/ ApWarehouse(p)
        \/ ApCreate(p)
        \/ UpFind(p)
        \/ UpUpdate(p)
        \/ UpStockFind(p)
        \/ UpStockWrite(p)
        \/ UpPriceClose(p)
        \/ UpPriceClosing(p)
        \/ UpPriceCreate(p)
        \/ UpdUpdate(p)
        \/ UpdPriceClose(p)
        \/ UpdPriceClosing(p)
        \/ UpdPriceCreate(p)
        \/ BuUpdate(p)
        \/ BuWarehouse(p)
        \/ BuStockFind(p)
        \/ BuStockWrite(p)
        \/ BuPriceFind(p)
        \/ BuPriceWrite(p)
        \/ UpsFind(p)
        \/ UpsWrite(p)
        \/ UpsLog(p)
        \/ TsFindFrom(p)
        \/ TsDebit(p)
        \/ TsFindTo(p)
        \/ TsCredit(p)
        \/ DpFind(p)
        \/ DpGuard(p)
        \/ DpDelete(p)
        \/ DpdFind(p)
        \/ DpdGuard(p)
        \/ DpdAggregate(p)
        \/ DpdDelete(p)
        \/ DeactivateUpdate(p)
        \/ ActivateUpdate(p)
        \/ StatusUpdate(p)
        \/ Commit(p)
        \/ InvalidateDel(p)
        \/ InvalidateMark(p)
        \/ Return(p)
    \/ \E p \in {2} :
        \/ WarmupProductCacheCall(p)
        \/ WarmRead(p)
        \/ WarmSet(p)
        \/ WarmMark(p)
        \/ GetProductsCall(p)
        \/ GetProducts(p)
        \/ Return(p)

SpecCacheFaults == InitCache /\ [][NextCacheFaults]_vars

------------------------------------------------------------------------------
(* SpecWarehouse: admins of the organizations create and delete warehouses.   *)

InitWarehouse == InitCommon /\ opsLeft = MaxOps

NextWarehouse ==
    \/ Tick
    \/ \E p \in Procs :
        \/ CreateWarehouseCall(p)
        \/ CwCreate(p)
        \/ DeleteWarehouseCall(p)
        \/ DwFind(p)
        \/ DwCount(p)
        \/ DwDelete(p)
        \/ Return(p)

SpecWarehouse == InitWarehouse /\ [][NextWarehouse]_vars

------------------------------------------------------------------------------
(* SpecGate: one call of any mutating action by any principal.               *)

InitGate == InitCommon /\ opsLeft = 1

NextGate ==
    \E p \in {1} :
        \/ SignIn(p)
        \/ RefusedCall(p)
        \/ Refuse(p)
        \/ AddProductCall(p) /\ Admitted(p)
        \/ UpdateProductCall(p) /\ Admitted(p)
        \/ UpdateProductDetailsCall(p) /\ Admitted(p)
        \/ BulkUpdateProductsCall(p, 1) /\ Admitted(p)
        \/ UpdateProductStockCall(p) /\ Admitted(p)
        \/ TransferStockCall(p) /\ Admitted(p)
        \/ DeleteProductCall(p) /\ Admitted(p)
        \/ DeleteProductDetailsCall(p) /\ Admitted(p)
        \/ DeactivateProductCall(p) /\ Admitted(p)
        \/ ActivateProductCall(p) /\ Admitted(p)
        \/ UpdateProductStatusCall(p) /\ Admitted(p)
        \/ CreateWarehouseCall(p) /\ Admitted(p)
        \/ UpdateWarehouseCall(p) /\ Admitted(p)
        \/ DeleteWarehouseCall(p) /\ Admitted(p)
        \/ ApWarehouse(p)
        \/ ApCreate(p)
        \/ UpFind(p)
        \/ UpUpdate(p)
        \/ UpStockFind(p)
        \/ UpStockWrite(p)
        \/ UpPriceClose(p)
        \/ UpPriceClosing(p)
        \/ UpPriceCreate(p)
        \/ UpdUpdate(p)
        \/ UpdPriceClose(p)
        \/ UpdPriceClosing(p)
        \/ UpdPriceCreate(p)
        \/ BuUpdate(p)
        \/ BuWarehouse(p)
        \/ BuStockFind(p)
        \/ BuStockWrite(p)
        \/ BuPriceFind(p)
        \/ BuPriceWrite(p)
        \/ UpsFind(p)
        \/ UpsWrite(p)
        \/ UpsLog(p)
        \/ TsFindFrom(p)
        \/ TsDebit(p)
        \/ TsFindTo(p)
        \/ TsCredit(p)
        \/ DpFind(p)
        \/ DpGuard(p)
        \/ DpDelete(p)
        \/ DpdFind(p)
        \/ DpdGuard(p)
        \/ DpdAggregate(p)
        \/ DpdDelete(p)
        \/ DeactivateUpdate(p)
        \/ ActivateUpdate(p)
        \/ StatusUpdate(p)
        \/ CwCreate(p)
        \/ UwFind(p)
        \/ UwUpdate(p)
        \/ DwFind(p)
        \/ DwCount(p)
        \/ DwDelete(p)
        \/ Commit(p)
        \/ InvalidateDel(p)
        \/ InvalidateMark(p)
        \/ Return(p)

SpecGate == InitGate /\ [][NextGate]_vars

\* Every entry point that writes to the store, called by any principal
NextEntry ==
    \/ NextGate
    \/ \E p \in {1} :
        \/ EnsureDefaultWarehouseCall(p)
        \/ EdwMember(p)
        \/ EdwFind(p)
        \/ EdwCreate(p)

SpecEntry == InitGate /\ [][NextEntry]_vars

------------------------------------------------------------------------------
(* SpecTenant: stock and warehouse actions called with any organization id.  *)

InitTenant == InitCommon /\ opsLeft = MaxOps - 1

NextTenant ==
    \/ Tick
    \/ \E p \in Procs :
        \/ UpdateProductStockCall(p)
        \/ UpdateProductStockForeignCall(p)
        \/ UpsFind(p)
        \/ UpsWrite(p)
        \/ UpsLog(p)
        \/ TransferStockCall(p)
        \/ TransferStockForeignCall(p)
        \/ TsFindFrom(p)
        \/ TsDebit(p)
        \/ TsFindTo(p)
        \/ TsCredit(p)
        \/ CreateWarehouseCall(p)
        \/ CwCreate(p)
        \/ DeleteWarehouseCall(p)
        \/ DwFind(p)
        \/ DwCount(p)
        \/ DwDelete(p)
        \/ Commit(p)
        \/ InvalidateDel(p)
        \/ InvalidateMark(p)
        \/ Return(p)

SpecTenant == InitTenant /\ [][NextTenant]_vars



------------------------------------------------------------------------------
(* Properties *)

RECURSIVE SumQuantity(_)
SumQuantity(rows) ==
    IF rows = {} THEN 0
    ELSE LET r == CHOOSE x \in rows : TRUE IN r.quantity + SumQuantity(rows \ {r})

\* The stock of a product at a warehouse: absence of a row means zero.
Quantity(d, product, warehouse) == SumQuantity(StocksOf(d, product, warehouse))

\* The stock of a product over all warehouses.
TotalQuantity(d, product) == SumQuantity({r \in d.stock : r.product = product})

RECURSIVE SignedSum(_, _, _)
SignedSum(ms, product, warehouse) ==
    IF ms = <<>> THEN 0
    ELSE (IF Head(ms).product = product /\ Head(ms).warehouse = warehouse
          THEN (IF Head(ms).type = "in" THEN Head(ms).quantity ELSE -Head(ms).quantity)
          ELSE 0) + SignedSum(Tail(ms), product, warehouse)

\* Handler p takes a step.
StepOf(p) == pc'[p] # pc[p]

\* Handler p's transaction commits in this step.
Commits(p, op) == pc[p] = "commit" /\ req[p].op = op /\ pc'[p] = "done"

\* C1: after any sequence of addProduct, updateProduct, bulkUpdateProducts,
\* updateProductStock and transferStock calls with any integer arguments, every
\* ProductStock row has quantity >= 0.
C1_StockNeverNegative == \A r \in db.stock : r.quantity >= 0

\* C2: updateProductStock whose adjustment would take the current quantity (0
\* when there is no row) below zero fails with the insufficient-stock error,
\* the committed stock and movement rows are unchanged and nothing is left pending.
C2_InsufficientAdjustFails ==
    [][\A p \in Procs :
          (/\ pc[p] = "ups_find"
           /\ StepOf(p)
           /\ Quantity(db, req[p].product, req[p].warehouse) + req[p].adjustment < 0
           /\ \A r \in StocksOf(db, req[p].product, req[p].warehouse) :
                 r.quantity + req[p].adjustment < 0)
          => /\ pc'[p] = "done"
             /\ result'[p] = InsufficientAdjust
             /\ db'.stock = db.stock
             /\ db'.movements = db.movements
             /\ writes'[p] = <<>>]_vars

C2_Witness ==
    \E p \in Procs :
        /\ pc[p] = "done"
        /\ req[p].op = "updateProductStock"
        /\ result[p] = InsufficientAdjust
        /\ StocksOf(db, req[p].product, req[p].warehouse) # {}

\* C3: two concurrent updateProductStock calls on the same pair both take effect:
\* each commit adds exactly its adjustment to the committed quantity, so the final
\* quantity is q + d1 + d2.
C3_NoLostUpdate ==
    [][\A p \in Procs :
          Commits(p, "updateProductStock")
          => Quantity(db', req[p].product, req[p].warehouse)
             = Quantity(db, req[p].product, req[p].warehouse) + req[p].adjustment]_vars

\* C4: for every (product, warehouse) pair the signed sum of its StockMovement
\* rows equals its current ProductStock quantity.
C4_LedgerReconciles ==
    \A pr \in db.products, w \in db.warehouses :
        SignedSum(db.movements, pr.id, w.id) = Quantity(db, pr.id, w.id)

\* C5: transferStock whose source holds less than the quantity asked (or has no
\* row) fails with the insufficient-stock error and leaves the stock of the
\* source and of the destination unchanged.
C5_InsufficientTransferFails ==
    [][\A p \in Procs :
          (/\ pc[p] = "ts_find_from"
           /\ StepOf(p)
           /\ \A r \in StocksOf(db, req[p].product, req[p].from) : r.quantity < req[p].quantity)
          => /\ pc'[p] = "done"
             /\ result'[p] = InsufficientTransfer
             /\ db'.stock = db.stock
             /\ writes'[p] = <<>>]_vars

C5_Witness ==
    \E p \in Procs :
        /\ pc[p] = "done"
        /\ req[p].op = "transferStock"
        /\ result[p] = InsufficientTransfer
        /\ req[p].from # req[p].to
        /\ StocksOf(db, req[p].product, req[p].from) # {}

\* C6: a successful transferStock between two distinct warehouses holding a >= q
\* and b ends with a - q at the source and b + q at the destination; the total
\* stock of the product is unchanged.
C6_TransferMovesQuantity ==
    [][\A p \in Procs :
          (Commits(p, "transferStock") /\ req[p].from # req[p].to)
          => LET a == Quantity(db, req[p].product, req[p].from)
                 b == Quantity(db, req[p].product, req[p].to)
             IN /\ a >= req[p].quantity
                /\ Quantity(db', req[p].product, req[p].from) = a - req[p].quantity
                /\ Quantity(db', req[p].product, req[p].to) = b + req[p].quantity
                /\ TotalQuantity(db', req[p].product) = TotalQuantity(db, req[p].product)]_vars

C6_Witness ==
    \E p \in Procs :
        /\ pc[p] = "done"
        /\ req[p].op = "transferStock"
        /\ result[p] = "success"
        /\ req[p].from # req[p].to
        /\ req[p].quantity > 0
        /\ loc[p].toStock.id # NULL
        /\ loc[p].toStock.quantity > 0

\* C7: every successful transferStock appends exactly two StockMovement rows, an
\* 'out' of magnitude q for the source and an 'in' of magnitude q for the destination.
C7_TransferLogsTwoMovements ==
    [][\A p \in Procs :
          Commits(p, "transferStock")
          => /\ Len(db'.movements) = Len(db.movements) + 2
             /\ SubSeq(db'.movements, 1, Len(db.movements)) = db.movements
             /\ {db'.movements[Len(db.movements) + 1], db'.movements[Len(db.movements) + 2]}
                = {MovementRow(req[p].product, req[p].from, "out", req[p].quantity),
                   MovementRow(req[p].product, req[p].to, "in", req[p].quantity)}]_vars

\* The committed rows show the debit of handler p's transfer.
DebitVisible(d, p) ==
    \E r \in d.stock : /\ r.id = loc[p].fromStock.id
                       /\ r.quantity = loc[p].fromStock.quantity - req[p].quantity

\* The committed rows show the credit of handler p's transfer.
CreditVisible(d, p) ==
    /\ "toStock" \in DOMAIN loc[p]
    /\ IF loc[p].toStock.id # NULL
       THEN \E r \in d.stock : /\ r.id = loc[p].toStock.id
                               /\ r.quantity = loc[p].toStock.quantity + req[p].quantity
       ELSE \E r \in d.stock \ db.stock : /\ r.product = req[p].product
                                          /\ r.warehouse = req[p].to
                                          /\ r.quantity = req[p].quantity

\* C8: no step of a transferStock makes the debit visible without the credit:
\* whenever a step of the transfer changes the committed stock rows, both the
\* decremented source row and the incremented destination row are in them.
C8_TransferNeverHalfVisible ==
    [][\A p \in Procs :
          (/\ req[p].op = "transferStock"
           /\ req[p].from # req[p].to
           /\ StepOf(p)
           /\ db'.stock # db.stock)
          => DebitVisible(db', p) /\ CreditVisible(db', p)]_vars

C8_Witness ==
    \E p \in Procs :
        /\ pc[p] = "ts_credit"
        /\ req[p].from # req[p].to
        /\ req[p].quantity > 0
        /\ loc[p].fromStock \in db.stock
        /\ \E q \in Procs \ {p} : pc[q] \notin {"idle", "done"}

PriceChanging == {"updateProduct", "updateProductDetails", "bulkUpdateProducts"}

\* C9: in every committed state each product has at most one ProductPrice row
\* with valid_to = null, also when price-changing operations run concurrently.
C9_AtMostOneOpenPrice ==
    \A pr \in db.products : Cardinality(OpenPrices(db, pr.id)) <= 1

C9_Witness ==
    \E p \in Procs, q \in Procs :
        /\ p # q
        /\ pc[p] = "up_price_create"
        /\ pc[q] = "upd_update"
        /\ req[q].price # {}
        /\ req[p].product = req[q].product
        /\ req[p].org = req[q].org

\* C10: a product that has had a price set has, in every committed state, at
\* least one ProductPrice row with valid_to = null.
C10_PricedProductKeepsOpenPrice ==
    \A pr \in db.products :
        (\E r \in db.prices : r.product = pr.id) => OpenPrices(db, pr.id) # {}

C10_Witness ==
    \E pr \in db.products :
        /\ \E r \in db.prices : r.product = pr.id /\ r.valid_to # NULL
        /\ \E p \in Procs : /\ pc[p] \in {"up_price_create", "upd_price_create"}
                            /\ req[p].product = pr.id

\* C11: when a price is set twice in succession, the valid_to written on the
\* first price row equals the valid_from of the row that succeeds it: every
\* closed price row of a product meets a later row of the same product.
C11_PriceIntervalsMeet ==
    \A r \in db.prices :
        r.valid_to # NULL
        => \E s \in db.prices : /\ s.product = r.product
                                /\ s.id # r.id
                                /\ s.valid_from = r.valid_to

\* Two products of one organization never share a SKU.
SkuUniquePerOrg(d) ==
    \A a \in d.products, b \in d.products : (a.org = b.org /\ a.sku = b.sku) => a.id = b.id

\* A product of the organization other than `self` has the SKU in the rows d.
SkuUsed(d, org, sku, self) ==
    \E r \in d.products : r.org = org /\ r.sku = sku /\ r.id # self

\* C12: no two products of the same organization have the same SKU, and creating
\* a product succeeds whenever its SKU is unused in its own organization, whatever
\* SKUs the other organizations use.
C12_SkuUniquePerOrganization ==
    /\ [](SkuUniquePerOrg(db))
    /\ [][\A p \in Procs :
             (/\ pc[p] = "ap_create"
              /\ StepOf(p)
              /\ ~SkuUsed(db, req[p].org, req[p].sku, NULL))
             => pc'[p] = "commit"]_vars

C12_Witness ==
    /\ \E a \in db.products, b \in db.products : a.org # b.org /\ a.sku = b.sku
    /\ \E p \in Procs : /\ pc[p] = "done"
                        /\ req[p].op \in {"addProduct", "updateProduct"}
                        /\ result[p] # "success"
                        /\ SkuUsed(db, req[p].org, req[p].sku,
                                    IF req[p].op = "addProduct" THEN NULL ELSE req[p].product)

\* C13: creating a product with, or changing a product's SKU to, a SKU already
\* used in the same organization fails with the dedicated duplicate-SKU error, and
\* no product row is created or changed.
C13_DuplicateSkuError ==
    [][\A p \in Procs :
          (\/ /\ pc[p] = "ap_create"
              /\ SkuUsed(View(p), req[p].org, req[p].sku, NULL)
           \/ /\ pc[p] = "up_update"
              /\ SkuUsed(View(p), req[p].org, req[p].sku, req[p].product))
          /\ StepOf(p)
          => /\ result'[p] = DuplicateSku
             /\ db'.products = db.products
             /\ writes'[p] = <<>>]_vars

DeleteOps == {"deleteProduct", "deleteProductDetails"}
StatusOps == {"deactivateProduct", "activateProduct", "updateProductStatus"}

\* C14: no step of deleteProduct or deleteProductDetails on a product that an
\* OrderItem references succeeds or changes the store (the product and its stock
\* and price rows stay), and in every state, orders being placed concurrently
\* included, every OrderItem references a product the store holds.
C14_OrderedProductNotDeleted ==
    /\ [](\A o \in db.orderItems : o.product \in ProductIds(db))
    /\ [][\A p \in Procs :
             (/\ req[p].op \in DeleteOps
              /\ StepOf(p)
              /\ OrderItemsOf(db, req[p].product) # {})
             => /\ db' = db
                /\ result'[p] # "success"]_vars

C14_Witness ==
    \E p \in Procs :
        /\ pc[p] = "done"
        /\ req[p].op \in DeleteOps
        /\ result[p] = ForeignKeyViolation
        /\ OrderItemsOf(db, req[p].product) # {}
        /\ \E r \in db.prices : r.product = req[p].product

\* The status an operation of StatusOps writes.
StatusWritten(r) ==
    CASE r.op = "deactivateProduct" -> "discontinued"
      [] r.op = "activateProduct" -> "active"
      [] r.op = "updateProductStatus" -> r.status

\* C15: deactivateProduct, activateProduct and updateProductStatus on a product of
\* the organization succeed, whether or not OrderItems reference it, and change
\* nothing but that product's status: every other product row and all stock,
\* price, movement and order-item rows are unchanged.
C15_StatusChangeOnly ==
    [][\A p \in Procs :
          (/\ req[p].op \in StatusOps
           /\ pc[p] \in {"deactivate", "activate", "set_status"}
           /\ StepOf(p)
           /\ ProductIn(db, req[p].product, req[p].org) # {})
          => /\ result'[p] = "success"
             /\ db'.products =
                  {IF r.id = req[p].product THEN [r EXCEPT !.status = StatusWritten(req[p])]
                   ELSE r : r \in db.products}
             /\ db'.stock = db.stock
             /\ db'.prices = db.prices
             /\ db'.movements = db.movements
             /\ db'.orderItems = db.orderItems]_vars

C15_Witness ==
    \E p \in Procs :
        /\ pc[p] = "done"
        /\ req[p].op = "deactivateProduct"
        /\ result[p] = "success"
        /\ OrderItemsOf(db, req[p].product) # {}
        /\ \E r \in db.products : r.id = req[p].product /\ r.status = "discontinued"
        /\ \E r \in db.prices : r.product = req[p].product /\ r.valid_to = NULL

MutatingOps ==
    {"addProduct", "updateProduct", "updateProductDetails", "deleteProduct",
     "deleteProductDetails", "bulkUpdateProducts", "updateProductStock", "transferStock",
     "deactivateProduct", "activateProduct", "updateProductStatus"}

\* Handler p's action returns in this step.
Returns(p) == pc[p] \in {"done", "settled"} /\ pc'[p] = "idle"

\* C16: when a mutating action on organization O returns success, the cached
\* product list of O is not a list cached before the write: the entry is gone,
\* or it holds the list the store now gives, or the last-modified marker of O
\* is later than the time the entry was written.
C16_NoStaleProductList ==
    [][\A p \in Procs :
          (Returns(p) /\ req[p].op \in MutatingOps /\ result[p] = "success")
          => \A e \in cache.products[req[p].org] :
                \/ e.list = ProductList(db, req[p].org)
                \/ cache.lastModified[req[p].org] > e.at]_vars

\* C17: a mutating action deletes the cache entry and writes the marker only
\* after its store transaction has committed: every step of it that runs a part
\* of invalidateProducts or changes the cache is taken with the action's write
\* succeeded and nothing left uncommitted, so an action that rolls back does neither.
C17_InvalidateAfterCommit ==
    [][\A p \in Procs :
          (/\ req[p].op \in MutatingOps
           /\ StepOf(p)
           /\ (cache' # cache \/ pc[p] = "mark" \/ pc'[p] = "mark"))
          => /\ result[p] = "success"
             /\ writes[p] = <<>>
             /\ pc[p] \in {"done", "mark"}]_vars

C17_Witness ==
    \E p \in Procs :
        /\ pc[p] = "settled"
        /\ req[p].op = "updateProduct"
        /\ loc[p].deleted
        /\ cache.lastModified[req[p].org] = now
        /\ \E r \in db.prices : r.product = req[p].product /\ r.valid_to # NULL

\* C18: with the cache store failing, every CacheService call returns normally
\* and changes nothing (get yields null), the enclosing mutation keeps its
\* success and its committed rows, and after a failed deletion the marker write
\* is still run and takes effect when the store answers.
C18_CacheFailuresSwallowed ==
    [][\A p \in Procs :
          StepOf(p) =>
            /\ (ToInvalidate(p) /\ ~cache.up)
               => /\ pc'[p] = "mark"
                  /\ result'[p] = "success"
                  /\ cache' = cache /\ db' = db
            /\ (pc[p] = "mark")
               => /\ pc'[p] = "settled"
                  /\ result'[p] = "success"
                  /\ db' = db
                  /\ IF cache.up THEN cache'.lastModified[req[p].org] = now ELSE cache' = cache
            /\ (pc[p] = "settled") => result[p] = "success" /\ writes[p] = <<>>
            /\ (pc[p] = "get" /\ ~cache.up)
               => loc'[p].got = NoEntry /\ result'[p] = "success" /\ cache' = cache
            /\ (pc[p] = "warm_set" /\ ~cache.up) => pc'[p] = "warm_mark" /\ cache' = cache
            /\ (pc[p] = "warm_mark" /\ ~cache.up) => result'[p] = "success" /\ cache' = cache]_vars

C18_Witness ==
    \E p \in Procs :
        /\ pc[p] = "settled"
        /\ req[p].op = "updateProductStock"
        /\ ~loc[p].deleted
        /\ cache.lastModified[req[p].org] = now
        /\ cache.products[req[p].org] # NoEntry
        /\ \E q \in Procs : pc[q] = "done" /\ req[q].op = "getProducts" /\ loc[q].got = NoEntry

\* The stored warehouse row a deleteWarehouse call names, if there is one.
Named(p) == {w \in db.warehouses : w.id = req[p].warehouse}

\* Handler p's deleteWarehouse ends in this step, by an error or by the delete.
DeleteWarehouseEnds(p) ==
    /\ req[p].op = "deleteWarehouse"
    /\ pc[p] \in {"dw_find", "dw_count", "dw_delete"}
    /\ pc'[p] = "done"

\* w is the earliest-created warehouse of its organization, which has another one.
EarliestOfSeveral(w) ==
    \E x \in WarehousesOf(db, w.org) \ {w} :
        \A y \in WarehousesOf(db, w.org) \ {w} : w.created_at < y.created_at

\* C19: a deleteWarehouse call that names the only warehouse of an organization
\* ends with the last-warehouse error, one that names the earliest-created
\* warehouse of an organization having two or more ends with the
\* default-warehouse error, and in both cases the warehouse rows are unchanged.
C19_LastAndDefaultProtected ==
    [][\A p \in Procs :
          DeleteWarehouseEnds(p) => \A w \in Named(p) :
            /\ (WarehousesOf(db, w.org) = {w})
               => result'[p] = LastWarehouse /\ db'.warehouses = db.warehouses
            /\ EarliestOfSeveral(w)
               => result'[p] = DefaultWarehouse /\ db'.warehouses = db.warehouses]_vars

\* C20: an organization that has a warehouse has one in every later state.
C20_OrgKeepsAWarehouse ==
    [][\A org \in Orgs :
          WarehousesOf(db, org) # {} => WarehousesOf(db', org) # {}]_vars

\* Handler p's call ends in this step with an error.
Fails(p) == pc'[p] = "done" /\ result'[p] # "success"

\* C21: a bulkUpdateProducts call changes no committed product, stock or price
\* row before it commits, and when the processing of an item fails, the call
\* ends with the updates of the items before it discarded: none of them is
\* applied then or later.
C21_BulkAllOrNothing ==
    [][\A p \in Procs :
          (req[p].op = "bulkUpdateProducts" /\ StepOf(p))
          => /\ pc[p] # "commit"
                => /\ db'.products = db.products
                   /\ db'.stock = db.stock
                   /\ db'.prices = db.prices
             /\ Fails(p) => writes'[p] = <<>>
             /\ pc[p] = "commit" => result'[p] = "success"]_vars

C21_Witness ==
    \E p \in Procs :
        /\ req[p].op = "bulkUpdateProducts"
        /\ pc[p] = "done"
        /\ result[p] \notin {"success", "none"}
        /\ BuIndex(p) = 2
        /\ req[p].updates[1].sku # {} /\ req[p].updates[1].stock # {}
        /\ \A r \in db.products : r.id = req[p].updates[1].id => {r.sku} # req[p].updates[1].sku

\* The principal may run the action on the organization.
Permitted(principal, org, op) ==
    /\ principal # Anonymous
    /\ principal[org] \in (IF op = "deleteWarehouse" THEN {"admin"}
                           ELSE {"writer", "read-write", "admin"})

\* C22: a mutating action called by a principal who is unauthenticated, not a
\* member of the organization or without a role of the required set fails, and
\* no step of it changes a store row, a sequence, a cache entry or leaves a
\* write pending.
C22_GateBeforeAnyWrite ==
    [][\A p \in Procs :
          (/\ StepOf(p)
           /\ req'[p].op \in GatedOps
           /\ ~Permitted(caller[p], req'[p].org, req'[p].op))
          => /\ db' = db /\ seq' = seq /\ cache' = cache
             /\ writes'[p] = <<>>
             /\ result'[p] # "success"]_vars

C22_Witness ==
    \E p \in Procs :
        /\ pc[p] = "done"
        /\ req[p].op = "deleteWarehouse"
        /\ caller[p] # Anonymous
        /\ caller[p][req[p].org] = "writer"
        /\ result[p] = InsufficientPermissions

TenantOps == {"updateProductStock", "transferStock", "deleteWarehouse"}

\* The rows of d that belong to an organization other than org.
OthersWarehouses(d, org) == {w \in d.warehouses : w.org # org}
OthersProducts(d, org) == {r.id : r \in {x \in d.products : x.org # org}}
OthersStock(d, org) == {r \in d.stock : r.product \in OthersProducts(d, org)}
OthersMovements(d, org) ==
    SelectSeq(d.movements, LAMBDA m : m.product \in OthersProducts(d, org))

\* The product or warehouse ids the call names that are not of its organization.
NamesForeign(r) ==
    \/ r.op \in {"updateProductStock", "transferStock"}
       /\ r.product \in OthersProducts(db, r.org)
    \/ r.op = "updateProductStock"
       /\ r.warehouse \in {w.id : w \in OthersWarehouses(db, r.org)}
    \/ r.op = "transferStock"
       /\ {r.from, r.to} \cap {w.id : w \in OthersWarehouses(db, r.org)} # {}
    \/ r.op = "deleteWarehouse"
       /\ r.warehouse \in {w.id : w \in OthersWarehouses(db, r.org)}

\* C23: no step of updateProductStock, transferStock or deleteWarehouse called
\* with organization O changes a stock, movement or warehouse row of another
\* organization, and a call that names a product or warehouse of another
\* organization ends with an error.
C23_OnlyOwnRowsChange ==
    [][\A p \in Procs :
          (req[p].op \in TenantOps /\ StepOf(p))
          => /\ OthersStock(db', req[p].org) = OthersStock(db, req[p].org)
             /\ OthersMovements(db', req[p].org) = OthersMovements(db, req[p].org)
             /\ OthersWarehouses(db', req[p].org) = OthersWarehouses(db, req[p].org)
             /\ (NamesForeign(req[p]) /\ pc'[p] = "done") => result'[p] # "success"]_vars

\* C27: in every reachable state there is at most one ProductStock row per
\* (product, warehouse) pair, whatever updateProductStock and transferStock
\* calls ran concurrently.
C27_OneStockRowPerPair ==
    \A r1, r2 \in db.stock :
        (r1.product = r2.product /\ r1.warehouse = r2.warehouse) => r1 = r2

\* C28: after any addProduct, updateProductDetails, deactivateProduct,
\* activateProduct and updateProductStatus calls, every product's status is one
\* of active, inactive and discontinued.
C28_StatusInDomain ==
    \A r \in db.products : r.status \in Statuses

\* Handlers p and q run transferStock for the same product in opposite directions.
Opposite(p, q) ==
    /\ req[p].op = "transferStock" /\ req[q].op = "transferStock"
    /\ pc[p] # "done" /\ pc[q] # "done"
    /\ req[p].product = req[q].product
    /\ req[p].from # req[p].to
    /\ req[p].from = req[q].to /\ req[p].to = req[q].from

\* C29: two transferStock calls for one product in opposite directions never
\* wait on each other in a cycle (each for a stock row the other has locked),
\* and each ends committed or with the insufficient-stock error.
C29_NoTransferDeadlock ==
    \A p, q \in Procs :
        (p # q /\ Opposite(p, q))
        => /\ ~(WaitsFor(p) \cap Locks(q) # {} /\ WaitsFor(q) \cap Locks(p) # {})
           /\ result[p] \in {"none", "success", InsufficientTransfer}

\* The operations that write ProductStock rows.
StockOps == {"addProduct", "updateProduct", "bulkUpdateProducts",
             "updateProductStock", "transferStock"}

\* C30: every step by which one of the stock-writing operations changes the
\* stored quantity of a (product, warehouse) pair, or stores a new stock row,
\* appends in the same step movement rows whose signed sum equals the change.
C30_StockChangeLogged ==
    [][\A p \in Procs :
          (req[p].op \in StockOps /\ StepOf(p))
          => \A pr \in db'.products, w \in db'.warehouses :
                /\ Quantity(db', pr.id, w.id) - Quantity(db, pr.id, w.id)
                   = SignedSum(db'.movements, pr.id, w.id) - SignedSum(db.movements, pr.id, w.id)
                /\ Cardinality(StocksOf(db', pr.id, w.id)) > Cardinality(StocksOf(db, pr.id, w.id))
                   => Len(db'.movements) > Len(db.movements)]_vars

\* The memberships that organization org holds for the user invited by token t.
Accepted(d, t) ==
    UNION {MembersOf(d, i.org, i.email) : i \in {x \in d.invites : x.token = t}}

\* Handler p's acceptInvite call ends in this step.
AcceptEnds(p) == req[p].op = "acceptInvite" /\ pc[p] # "done" /\ pc'[p] = "done"

\* C26: for every invite token, a successful acceptInvite is the one that turns
\* the invite from pending to accepted and adds exactly one membership, so at
\* most one call succeeds and the invited user never holds two memberships; a
\* call made when the token's expiry time has passed or its status is not
\* pending fails, and no step of a failing call changes the invites or the
\* memberships.
C26_TokenConsumedOnce ==
    [][\A p \in Procs :
          /\ (AcceptEnds(p) /\ result'[p] = "success")
             => /\ \E i \in db.invites : i.token = req[p].token /\ i.status = "pending"
                /\ \E i \in db'.invites : i.token = req[p].token /\ i.status = "accepted"
                /\ Cardinality(db'.members) = Cardinality(db.members) + 1
                /\ Cardinality(Accepted(db', req[p].token)) = 1
          /\ (AcceptEnds(p) /\ result'[p] # "success")
             => db'.invites = db.invites /\ db'.members = db.members
          /\ (pc[p] = "ai_find" /\ pc'[p] # "ai_find"
              /\ \E i \in db.invites : /\ i.token = req[p].token
                                       /\ (i.expires_at < now \/ i.status # "pending"))
             => pc'[p] = "done" /\ result'[p] # "success"
          /\ (req[p].op = "acceptInvite" /\ StepOf(p) /\ ~AcceptEnds(p))
             => db'.invites = db.invites /\ db'.members = db.members]_vars

\* C26 witness: two acceptInvite calls for one token by the invited user ran
\* together; one is committed and the other was refused by the unique index.
C26_Witness ==
    \E p, q \in Procs :
        /\ p # q
        /\ req[p].op = "acceptInvite" /\ req[q].op = "acceptInvite"
        /\ req[p].token = req[q].token
        /\ pc[p] = "done" /\ result[p] = "success"
        /\ pc[q] = "done" /\ result[q] = MemberUniqueViolation

\* C24: no step of a deleteOrganization call without force, taken while the
\* organization has a warehouse, product or order row, changes the store or
\* ends the call with success.
C24_NoForceRefusesData ==
    [][\A p \in Procs :
          (/\ req[p].op = "deleteOrganization" /\ ~req[p].force
           /\ StepOf(p)
           /\ HasData(db, req[p].org))
          => db' = db /\ result'[p] # "success"]_vars

\* The rows of the store whose reference names no row: an order item without its
\* order or product, a stock or price row without its product or warehouse, a
\* warehouse, product, order, invite or membership without its organization.
Unowned(d) ==
    {<<"orderItems", i.id>> : i \in {x \in d.orderItems :
         x.order \notin Ids(d.orders) \/ x.product \notin Ids(d.products)}}
    \cup {<<"stock", r.id>> : r \in {x \in d.stock :
         x.product \notin Ids(d.products) \/ x.warehouse \notin Ids(d.warehouses)}}
    \cup {<<"prices", r.id>> : r \in {x \in d.prices : x.product \notin Ids(d.products)}}
    \cup {<<"warehouses", r.id>> : r \in {x \in d.warehouses : x.org \notin d.orgs}}
    \cup {<<"products", r.id>> : r \in {x \in d.products : x.org \notin d.orgs}}
    \cup {<<"orders", r.id>> : r \in {x \in d.orders : x.org \notin d.orgs}}
    \cup {<<"invites", r.id>> : r \in {x \in d.invites : x.org \notin d.orgs}}
    \cup {<<"members", r.id>> : r \in {x \in d.members : x.org \notin d.orgs}}

\* C25: no statement of a deleteOrganization call in force mode deletes a row
\* that another row, as the transaction sees the store, still references; the
\* store changes only when the transaction commits; and a failing call leaves
\* every row in place.
C25_ForceDeletesInOrder ==
    [][\A p \in Procs :
          (req[p].op = "deleteOrganization" /\ req[p].force /\ StepOf(p))
          => /\ Unowned(ApplyAll(db', writes'[p])) \subseteq Unowned(View(p))
             /\ (pc[p] # "commit") => db' = db
             /\ (pc'[p] = "done" /\ result'[p] # "success") => writes'[p] = <<>>]_vars

\* C31: every StockMovement row that a step of updateProductStock appends has a
\* strictly positive quantity equal to |adjustment|, type 'in' exactly when
\* adjustment > 0 and type 'out' exactly when adjustment < 0.
C31_MovementMatchesAdjustment ==
    [][\A p \in Procs :
          (req[p].op = "updateProductStock" /\ StepOf(p))
          => \A i \in (DOMAIN db'.movements) \ (DOMAIN db.movements) :
                LET m == db'.movements[i] IN
                /\ m.quantity > 0
                /\ m.quantity = Abs(req[p].adjustment)
                /\ (m.type = "in") <=> (req[p].adjustment > 0)
                /\ (m.type = "out") <=> (req[p].adjustment < 0)]_vars

\* The rows of the table that the step adds.
Added(table) == db'[table] \ db[table]

\* C32: the step that commits an addProduct call adds exactly one product, with
\* status active, exactly one stock row, of that product and holding the given
\* quantity, and exactly one price row, of that product and open; every other
\* step of the call, the failing one included, leaves the three tables as they
\* are.
C32_AddProductAtomic ==
    [][\A p \in Procs :
          (req[p].op = "addProduct" /\ StepOf(p))
          => IF pc'[p] = "done" /\ result'[p] = "success"
             THEN /\ Cardinality(Added("products")) = 1
                  /\ Cardinality(Added("stock")) = 1
                  /\ Cardinality(Added("prices")) = 1
                  /\ db.products \subseteq db'.products
                  /\ db.stock \subseteq db'.stock
                  /\ db.prices \subseteq db'.prices
                  /\ \A n \in Added("products") :
                        /\ n.status = "active" /\ n.org = req[p].org /\ n.sku = req[p].sku
                        /\ \A r \in Added("stock") :
                              r.product = n.id /\ r.quantity = req[p].stock
                        /\ \A r \in Added("prices") :
                              r.product = n.id /\ r.valid_to = NULL
             ELSE /\ db'.products = db.products
                  /\ db'.stock = db.stock
                  /\ db'.prices = db.prices]_vars

\* C32 witness: one addProduct call has committed its three rows and another
\* one has failed on its stock row.
C32_Witness ==
    \E p, q \in Procs :
        /\ req[p].op = "addProduct" /\ pc[p] = "done" /\ result[p] = "success"
        /\ req[q].op = "addProduct" /\ pc[q] = "done"
        /\ result[q] = ForeignKeyViolation

\* C33: when the organization has more than one warehouse, the warehouse that
\* addProduct and bulkUpdateProducts take as the default one is its earliest
\* created warehouse, the one deleteWarehouse protects.
C33_DefaultIsEarliest ==
    [][\A p \in Procs :
          (/\ pc[p] \in {"ap_warehouse", "bu_warehouse"}
           /\ StepOf(p)
           /\ Cardinality(WarehousesOf(db, req[p].org)) > 1)
          => loc'[p].warehouse \in {w.id : w \in FirstCreated(WarehousesOf(db, req[p].org))}]_vars

\* C39: when an addProduct or bulkUpdateProducts call ends with an error, the
\* warehouse that its getOrCreateDefaultWarehouse created, if it created one,
\* is not in the store.
C39_FailedCallLeavesNoWarehouse ==
    \A p \in Procs :
        (/\ req[p].op \in {"addProduct", "bulkUpdateProducts"}
         /\ pc[p] = "done" /\ result[p] # "success"
         /\ "created" \in DOMAIN loc[p])
        => ~(loc[p].created /\ loc[p].warehouse \in WarehouseIds(db))

\* The products whose price the call changes.
Priced(r) ==
    CASE r.op = "updateProduct" -> {r.product}
      [] r.op = "updateProductDetails" -> IF r.price # {} THEN {r.product} ELSE {}
      [] r.op = "bulkUpdateProducts" ->
            {r.updates[i].id : i \in {j \in DOMAIN r.updates : r.updates[j].price # {}}}
      [] OTHER -> {}

PricesOf(d, product) == {r \in d.prices : r.product = product}

\* C34: no step of updateProduct, updateProductDetails or bulkUpdateProducts
\* changes the retail price recorded in a price row that already exists, and
\* the step that commits the call leaves every product whose price it changes
\* with one price row more.
C34_PriceRowsAppendOnly ==
    [][\A p \in Procs :
          (req[p].op \in PriceChanging /\ StepOf(p))
          => /\ \A r \in db.prices : \A n \in db'.prices :
                   n.id = r.id => n.retail_price = r.retail_price
             /\ (pc[p] = "commit" /\ pc'[p] = "done")
                => \A id \in Priced(req[p]) :
                      Cardinality(PricesOf(db', id)) = Cardinality(PricesOf(db, id)) + 1]_vars

\* The stock rows of the warehouse.
StockIn(d, warehouse) == {r \in d.stock : r.warehouse = warehouse}

\* C36: once deleteWarehouse has found its warehouse, one of the organization's,
\* to be neither the last nor the default one, it fails with the
\* warehouse-has-stock error when a stock row of the warehouse has quantity > 0,
\* and goes on to delete the warehouse and succeed when every stock row of it
\* has quantity 0.
C36_OnlyPositiveStockBlocks ==
    [][\A p \in Procs :
          (/\ req[p].op = "deleteWarehouse" /\ StepOf(p)
           /\ pc[p] \in {"dw_count", "dw_delete"}
           /\ \E w \in WarehousesOf(db, req[p].org) : w.id = req[p].warehouse)
          => /\ (pc[p] = "dw_count" /\ \E r \in StockIn(db, req[p].warehouse) : r.quantity > 0)
                => (pc'[p] = "done" /\ result'[p] = WarehouseHasStock)
             /\ (\A r \in StockIn(db, req[p].warehouse) : r.quantity = 0)
                => IF pc[p] = "dw_count" THEN pc'[p] = "dw_delete"
                   ELSE result'[p] = "success" /\ req[p].warehouse \notin WarehouseIds(db')]_vars

\* The entry points that write to the store.
WritingOps == GatedOps \cup {"ensureDefaultWarehouse"}

\* C35: no step of a store-writing action called by a member whose role in the
\* organization is reader changes a store row or a sequence or leaves a write
\* pending, ensureDefaultWarehouse included.
C35_ReaderWritesNothing ==
    [][\A p \in Procs :
          (/\ StepOf(p)
           /\ req'[p].op \in WritingOps
           /\ caller[p] # Anonymous
           /\ caller[p][req'[p].org] = "reader")
          => db' = db /\ seq' = seq /\ writes'[p] = <<>>]_vars

\* A step of a bulkUpdateProducts call on handler p.
BulkStep(p) == StepOf(p) /\ req[p].op = "bulkUpdateProducts"

\* C37: a bulkUpdateProducts call runs the invalidation pass (del, then the
\* marker) once after a successful commit whatever the number of items, and
\* never in the loop or after a failure: a successful call leaves "done" only
\* into the pass, the pass ends the call, a failed call returns from "done",
\* and no other step of the call touches the cache.
C37_OneInvalidationPerBulk ==
    [][\A p \in Procs : BulkStep(p) =>
          /\ pc'[p] = "mark" <=> pc[p] = "done" /\ result[p] = "success"
          /\ pc[p] = "mark" <=> pc'[p] = "settled"
          /\ pc[p] = "settled" => pc'[p] = "idle"
          /\ pc[p] = "done" /\ result[p] # "success" => pc'[p] = "idle"
          /\ cache' # cache => pc[p] \in {"done", "mark"}
          /\ pc[p] = "done" /\ pc'[p] = "mark" =>
                 cache' = CacheDel(cache, req[p].org)
          /\ pc[p] = "mark" =>
                 cache' = CacheSetLastModified(cache, req[p].org)]_vars

\* A bulk update of MaxItems items has committed and run its pass, which
\* removed an entry of the organization.
C37_Witness ==
    \E p \in Procs :
        /\ pc[p] = "settled"
        /\ req[p].op = "bulkUpdateProducts"
        /\ Len(req[p].updates) = MaxItems
        /\ now > 0
        /\ cache.products[req[p].org] = NoEntry
        /\ cache.lastModified[req[p].org] = now

\* The cached product list of org differs from the store's.
Stale(org) == \E e \in cache.products[org] : e.list # ProductList(db, org)

\* C38: a stale entry of an organization does not stay forever: it leads to
\* the entry being absent (expired or invalidated), when a read misses the
\* cache and goes to the store.
C38_StaleEntryHeals ==
    \A org \in Orgs : Stale(org) ~> (cache.products[org] = NoEntry)

\* The reader's list, computed before the writer's commit, was stored after
\* the writer's invalidation and outlived both calls.
C38_Witness ==
    \E org \in Orgs :
        /\ Stale(org)
        /\ \A p \in Procs : pc[p] = "idle"
        /\ \E e \in cache.products[org] : cache.lastModified[org] >= e.at

\* The steps that run setProducts or invalidateProducts for the call's organization.
CacheStep(p) == StepOf(p) /\ pc[p] \in {"done", "mark", "warm_set", "warm_mark"}

\* C40: the entry keys and the marker keys of the organizations are pairwise
\* different keys, and a setProducts or invalidateProducts step for one
\* organization leaves the cached list and the last-modified marker of every
\* other organization unchanged.
C40_CacheKeysPerOrganization ==
    [][/\ \A a, b \in Orgs :
            /\ ProductsKey(a) # GetLastModifiedKey(KeyProducts, OrgId(b))
            /\ a # b => /\ ProductsKey(a) # ProductsKey(b)
                        /\ GetLastModifiedKey(KeyProducts, OrgId(a))
                             # GetLastModifiedKey(KeyProducts, OrgId(b))
       /\ \A p \in Procs : CacheStep(p) =>
            \A b \in Orgs \ {req[p].org} :
                /\ cache'.products[b] = cache.products[b]
                /\ cache'.lastModified[b] = cache.lastModified[b]]_vars

\* An invalidation for one organization has run while another organization's
\* list and marker are cached, and a list has been stored for one organization
\* while the other's is absent.
C40_Witness ==
    \E p, q \in Procs : \E b \in Orgs :
        /\ pc[p] = "settled" /\ loc[p].deleted
        /\ b # req[p].org
        /\ cache.products[b] # NoEntry
        /\ cache.lastModified[b] # NULL
        /\ cache.products[req[p].org] = NoEntry
        /\ pc[q] = "idle"

==============================================================================
